---- MODULE Spec2Model ----
(***************************************************************************)
(* The client of the Secret Santa application: the HTTP adapter            *)
(* (src/lib/api.ts), the error taxonomy (src/utils/errors.ts), the domain  *)
(* service (src/services/groupService.ts) and the session holder           *)
(* (src/context/AuthContext.tsx).                                          *)
(*                                                                         *)
(* Conventions.  A nullable value is a set: {} is null/undefined and {v}   *)
(* is the value v.  A JavaScript object whose keys may be absent is a      *)
(* function whose DOMAIN is the set of keys present.  A string the code    *)
(* inspects character by character (a group ID) is a sequence of           *)
(* one-character strings.  A message the code searches with includes()     *)
(* is a record of its text and of the lower-case keywords it contains.     *)
(***************************************************************************)
EXTENDS Integers, Sequences, FiniteSets, TLC

\* Longest group ID string handed to the service.
MaxIdLen == 3

Null == {}
Some(v) == {v}
The(o) == CHOOSE v \in o : TRUE

(***************************************************************************)
(* src/utils/errors.ts                                                     *)
(***************************************************************************)
ErrorType ==
  {"NETWORK", "API", "VALIDATION", "AUTHENTICATION", "AUTHORIZATION",
   "NOT_FOUND", "SERVER", "UNKNOWN"}

\* A message: what it reads, and which of the keywords the code looks for
\* occur in its lower-cased text.
Msg(text, has) == [text |-> text, has |-> has]

includes(message, keyword) == keyword \in message.has

\* message || fallback, on a message text
OrElse(text, fallback) == IF text # "" THEN text ELSE fallback

getUserMessage(type, message) ==
  CASE type = "NETWORK" ->
         "Unable to connect to the server. Please check your internet connection and try again."
    [] type = "AUTHENTICATION" -> "Your session has expired. Please log in again."
    [] type = "AUTHORIZATION" -> "You do not have permission to perform this action."
    [] type = "NOT_FOUND" -> "The requested resource was not found."
    [] type = "VALIDATION" -> OrElse(message.text, "Please check your input and try again.")
    [] type = "SERVER" -> "The server encountered an error. Please try again later."
    [] type = "API" ->
         IF includes(message, "username")
           THEN "This username is already taken. Please choose another."
         ELSE IF includes(message, "password")
           THEN "Invalid password. Please try again."
         ELSE IF includes(message, "invitation")
           THEN "Unable to send invitation. The user may already be a member or have a pending invitation."
         ELSE IF includes(message, "assignment")
           THEN "Unable to create assignments. Please ensure there are at least 2 members in the group."
         ELSE OrElse(message.text, "An error occurred. Please try again.")
    [] OTHER -> "An unexpected error occurred. Please try again."

\* An AppError built by parseError: originalError is the value parsed.
ParsedError(type, error, fallback, statusCode) ==
  [type |-> type,
   message |-> Msg(OrElse(error.message.text, fallback), error.message.has),
   statusCode |-> statusCode,
   userMessage |-> getUserMessage(type, error.message)]

\* The classification of a status code carried by a thrown value.
StatusErrorType(statusCode) ==
  CASE statusCode = 401 -> "AUTHENTICATION"
    [] statusCode = 403 -> "AUTHORIZATION"
    [] statusCode = 404 -> "NOT_FOUND"
    [] statusCode = 400 -> "VALIDATION"
    [] statusCode \in {500, 502, 503, 504} -> "SERVER"
    [] OTHER -> "API"

StatusFallback(statusCode) ==
  CASE statusCode = 401 -> "Unauthorized"
    [] statusCode = 403 -> "Forbidden"
    [] statusCode = 404 -> "Not found"
    [] statusCode = 400 -> "Bad request"
    [] statusCode \in {500, 502, 503, 504} -> "Server error"
    [] OTHER -> "API error"

\* parseError(error), error a thrown value: a function with the keys name and
\* message, and possibly type, userMessage and statusCode.
parseError(error) ==
  IF error.name = "TypeError" /\ includes(error.message, "fetch")
    THEN [type |-> "NETWORK", message |-> error.message, statusCode |-> Null,
          userMessage |-> getUserMessage("NETWORK", error.message)]
  ELSE IF {"type", "userMessage"} \subseteq DOMAIN error
    THEN error
  ELSE IF "statusCode" \in DOMAIN error
    THEN ParsedError(StatusErrorType(error.statusCode), error,
                     StatusFallback(error.statusCode), Some(error.statusCode))
  ELSE IF includes(error.message, "network") \/ includes(error.message, "connection")
    THEN [type |-> "NETWORK", message |-> error.message, statusCode |-> Null,
          userMessage |-> getUserMessage("NETWORK", error.message)]
  ELSE IF includes(error.message, "unauthorized") \/ includes(error.message, "authentication")
    THEN [type |-> "AUTHENTICATION", message |-> error.message, statusCode |-> Null,
          userMessage |-> getUserMessage("AUTHENTICATION", error.message)]
  ELSE [type |-> "API", message |-> error.message, statusCode |-> Null,
        userMessage |-> getUserMessage("API", error.message)]

getErrorMessage(error) == parseError(error).userMessage

(***************************************************************************)
(* parseInt(groupId) and isNaN(id), as groupService.ts uses them           *)
(***************************************************************************)
NaN == [nan |-> TRUE]
Num(n) == [nan |-> FALSE, n |-> n]
isNaN(x) == x.nan

HexDigits ==
  <<"0", "1", "2", "3", "4", "5", "6", "7", "8", "9", "a", "b", "c", "d", "e", "f">>

IsDigit(c, radix) == \E i \in 1..radix : HexDigits[i] = c
DigitValue(c) == (CHOOSE i \in 1..16 : HexDigits[i] = c) - 1

RECURSIVE SkipWhiteSpace(_)
SkipWhiteSpace(s) ==
  IF s # <<>> /\ Head(s) = " " THEN SkipWhiteSpace(Tail(s)) ELSE s

RECURSIVE DigitPrefix(_, _)
DigitPrefix(s, radix) ==
  IF s # <<>> /\ IsDigit(Head(s), radix)
    THEN <<Head(s)>> \o DigitPrefix(Tail(s), radix)
    ELSE <<>>

RECURSIVE DigitsValue(_, _, _)
DigitsValue(ds, radix, acc) ==
  IF ds = <<>> THEN acc
  ELSE DigitsValue(Tail(ds), radix, acc * radix + DigitValue(Head(ds)))

\* parseInt(string) with no radix: leading white space is skipped, a sign is
\* read, a 0x prefix selects radix 16, the longest run of digits is the
\* number and whatever follows it is ignored; no digit at all gives NaN.
parseInt(string) ==
  LET s1 == SkipWhiteSpace(string)
      negative == s1 # <<>> /\ Head(s1) = "-"
      s2 == IF s1 # <<>> /\ Head(s1) \in {"-", "+"} THEN Tail(s1) ELSE s1
      hex == Len(s2) >= 2 /\ s2[1] = "0" /\ s2[2] \in {"x", "X"}
      s3 == IF hex THEN SubSeq(s2, 3, Len(s2)) ELSE s2
      radix == IF hex THEN 16 ELSE 10
      ds == DigitPrefix(s3, radix)
      v == DigitsValue(ds, radix, 0)
  IN  IF ds = <<>> THEN NaN ELSE Num(IF negative THEN 0 - v ELSE v)

(***************************************************************************)
(* The remote server and the transport: what can come back for a request   *)
(***************************************************************************)
Statuses == {200, 204, 400, 401, 403, 404, 409, 500, 503}

ok(status) == status >= 200 /\ status <= 299

NoHeader == ""
ContentTypes == {"application/json; charset=utf-8", "text/html", NoHeader}

\* contentType && contentType.includes('application/json')
IsJsonContentType(contentType) ==
  contentType # NoHeader /\ contentType \in {"application/json", "application/json; charset=utf-8"}

alice == [id |-> 1, username |-> "alice", display_name |-> "Alice", image_url |-> Some("alice.png")]
bob == [id |-> 2, username |-> "bob", display_name |-> "Bob", image_url |-> Null]
Users == {alice, bob}

TokenOf(user) == IF user.id = 1 THEN "jwt-alice" ELSE "jwt-bob"
Tokens == {TokenOf(u) : u \in Users}

Bearer(t) == <<"Bearer", t>>

\* What fetch rejects with when no response is reached: the TypeError of
\* Chromium, of Firefox, of React Native and of WebKit.
FetchErrors ==
  {[name |-> "TypeError", message |-> Msg("Failed to fetch", {"fetch"})],
   [name |-> "TypeError",
    message |-> Msg("NetworkError when attempting to fetch resource.", {"network", "fetch"})],
   [name |-> "TypeError", message |-> Msg("Network request failed", {"network"})],
   [name |-> "TypeError", message |-> Msg("Load failed", {})]}

\* The body of a 2xx JSON answer has the type the adapter method declares
\* for its endpoint (the type argument of request<T>).
SuccessBodies(api, headers) ==
  CASE api \in {"login", "register"} ->
         {[token |-> TokenOf(u), user |-> u] : u \in Users}
    [] api = "getMe" ->
         {[user |-> u] : u \in {x \in Users : "Authorization" \in DOMAIN headers
                                              /\ headers["Authorization"] = Bearer(TokenOf(x))}}
    [] api = "getGroups" -> {[groups |-> <<>>], [groups |-> <<"group 7">>]}
    [] api \in {"getGroup", "createGroup", "updateGroup"} -> {[group |-> "group 7"]}
    [] api = "getPendingInvitations" ->
         {[invitations |-> <<>>], [invitations |-> <<"invitation 5">>]}
    [] api = "getAssignment" -> {[assignment |-> Null], [assignment |-> Some("receiver 2")]}
    [] api = "getGiftIdeas" -> {[gift_ideas |-> <<>>], [gift_ideas |-> <<"idea 9">>]}
    [] api \in {"createGiftIdea", "updateGiftIdea"} -> {[gift_idea |-> "idea 9"]}
    [] OTHER -> {[message |-> "done"]}

\* The JSON value null
JsonNull == [null |-> TRUE]

\* The body of a non-2xx JSON answer: an object with an error member, with an
\* empty one or with none, or null.
ErrorBodies ==
  {[error |-> "Rejected by the server"], [error |-> ""], [detail |-> "no error member"],
   JsonNull}

JsonResponses(request) ==
  {[status |-> s, contentType |-> "application/json; charset=utf-8",
    body |-> [parses |-> TRUE, json |-> b]] :
     s \in {x \in Statuses : ok(x)}, b \in SuccessBodies(request.api, request.headers)}
  \cup
  {[status |-> s, contentType |-> "application/json; charset=utf-8",
    body |-> [parses |-> TRUE, json |-> b]] :
     s \in {x \in Statuses : ~ok(x)}, b \in ErrorBodies}
  \cup
  {[status |-> s, contentType |-> "application/json; charset=utf-8",
    body |-> [parses |-> FALSE]] : s \in Statuses}

TextResponses ==
  {[status |-> s, contentType |-> c, body |-> [text |-> t]] :
     s \in Statuses, c \in {x \in ContentTypes : ~IsJsonContentType(x)},
     t \in {"", "<html>"}}

\* Every way a fetch can end.
Outcomes(request) ==
  {[kind |-> "response", response |-> r] : r \in JsonResponses(request) \cup TextResponses}
  \cup {[kind |-> "threw", error |-> e] : e \in FetchErrors}

(***************************************************************************)
(* src/lib/api.ts                                                          *)
(***************************************************************************)
\* The methods ApiClient defines.
ApiMethods ==
  {"register", "login", "getMe", "searchUsers", "updateDisplayName",
   "updateProfileImage", "deleteAccount", "registerDeviceToken", "getGroups",
   "getGroup", "createGroup", "updateGroup", "deleteGroup", "inviteUserToGroup",
   "getPendingInvitations", "acceptInvitation", "rejectInvitation",
   "cancelInvitation", "removeMember", "assignSecretSanta", "getAssignment",
   "deleteAssignments", "createGiftIdea", "getGiftIdeas", "updateGiftIdea",
   "deleteGiftIdea"}

\* Headers that never carry the token.
requestHeadersWithoutToken(tok) == ("Content-Type" :> "application/json")

\* request(), lines 28-35: the headers of the request, from this.token.
requestHeaders(tok) ==
  IF tok # Null
    THEN ("Content-Type" :> "application/json") @@ ("Authorization" :> Bearer(The(tok)))
    ELSE ("Content-Type" :> "application/json")

Request(api, method, endpoint, tok) ==
  [api |-> api, method |-> method, endpoint |-> endpoint, headers |-> requestHeaders(tok)]

HttpMessage(status) == [text |-> "HTTP", status |-> status, has |-> {}]

\* An error result that leaves the AppError out.
ErrorResultMessageOnly(appError) == [error |-> appError.userMessage]

\* return { error: error.userMessage, appError: error }
ErrorResult(appError) == [error |-> appError.userMessage, appError |-> appError]

\* What reading data.error throws when data is null.
NullDereference ==
  [name |-> "TypeError",
   message |-> Msg("Cannot read properties of null (reading 'error')", {})]

\* request(), lines 78-104: the AppError of a non-2xx JSON answer.
StatusError(status, data) ==
  LET serverMessage == IF "error" \in DOMAIN data /\ data.error # ""
                         THEN Some(data.error) ELSE Null
      base == [type |-> IF status >= 500 THEN "SERVER" ELSE "API",
               message |-> IF serverMessage # Null
                             THEN Msg(The(serverMessage), {}) ELSE HttpMessage(status),
               statusCode |-> Some(status),
               userMessage |-> IF serverMessage # Null THEN The(serverMessage)
                               ELSE "An error occurred. Please try again."]
  IN  CASE status = 401 ->
             [base EXCEPT !.type = "AUTHENTICATION",
                          !.userMessage = "Your session has expired. Please log in again."]
        [] status = 403 ->
             [base EXCEPT !.type = "AUTHORIZATION",
                          !.userMessage = "You do not have permission to perform this action."]
        [] status = 404 ->
             [base EXCEPT !.type = "NOT_FOUND",
                          !.userMessage = "The requested resource was not found."]
        [] status = 400 ->
             [base EXCEPT !.type = "VALIDATION",
                          !.userMessage = IF serverMessage # Null THEN The(serverMessage)
                                          ELSE "Please check your input and try again."]
        [] OTHER -> base

\* request(), lines 37-112: what the adapter resolves to for an outcome of
\* fetch.  The result is the object the code returns: its DOMAIN is the set
\* of keys the object has.
requestResult(outcome) ==
  IF outcome.kind = "threw"
    THEN ErrorResult(parseError(outcome.error))
  ELSE LET response == outcome.response IN
    IF IsJsonContentType(response.contentType)
      THEN IF ~response.body.parses
             THEN ErrorResult(
                    [type |-> "API", message |-> Msg("Invalid response from server", {}),
                     statusCode |-> Some(response.status),
                     userMessage |-> "The server returned an invalid response. Please try again."])
           ELSE IF ~ok(response.status)
             THEN IF response.body.json = JsonNull
                    THEN ErrorResult(parseError(NullDereference))
                    ELSE ErrorResult(StatusError(response.status, response.body.json))
           ELSE [data |-> response.body.json]
      ELSE ErrorResult(
             [type |-> IF response.status >= 500 THEN "SERVER" ELSE "API",
              message |-> IF response.body.text # ""
                            THEN Msg(response.body.text, {}) ELSE HttpMessage(response.status),
              statusCode |-> Some(response.status),
              userMessage |-> IF response.status >= 500
                                THEN "The server encountered an error. Please try again later."
                                ELSE "An error occurred. Please try again."])

(***************************************************************************)
(* State                                                                   *)
(***************************************************************************)
VARIABLES
  storage,          \* AsyncStorage: a function from the keys present to their values
  token,            \* ApiClient.token
  isAuthenticated, userId, username, displayName, imageUrl, isLoading,
                    \* the state of AuthProvider
  pcAuth,           \* where the running session operation stands
  authReq,          \* the request a session operation awaits, if any
  authData,         \* response.data of signIn / signUp while it is persisted
  authResponse,     \* the local variable response of the running session operation;
                    \* what getMe answered to checkAuth stays until the next one starts
  authRet,          \* what the last signIn / signUp / deleteAccount returned
  svc,              \* the groupService call in progress or just finished
  server,           \* what the backend holds for the signed-in user
  screen,           \* the screen App.tsx has mounted
  home,             \* the state of HomeScreen
  detail,           \* the state of GroupDetailScreen
  alert,            \* the Alert on display, if any
  procs,            \* the asynchronous functions of the mounted screen in progress
  app,              \* the state of AppContent, its effects and its deep links
  login             \* the state of LoginScreen

screenVars == <<server, screen, home, detail, alert, procs, app, login>>
authVars == <<isAuthenticated, userId, username, displayName, imageUrl, isLoading>>
vars ==
  <<storage, token, isAuthenticated, userId, username, displayName, imageUrl,
    isLoading, pcAuth, authReq, authData, authResponse, authRet, svc,
    server, screen, home, detail, alert, procs, app, login>>

(***************************************************************************)
(* src/services/groupService.ts                                            *)
(***************************************************************************)
ReadOps ==
  {"getGroups", "getPendingInvitations", "getGroupById", "getAssignment", "getGiftIdeas"}

\* The operations that take a groupId string and parse it.
GroupIdOps ==
  {"getGroupById", "updateGroup", "deleteGroup", "inviteUser", "cancelInvitation",
   "leaveGroup", "removeMember", "assignSecretSanta", "getAssignment",
   "deleteAssignments", "createGiftIdea", "getGiftIdeas", "updateGiftIdea",
   "deleteGiftIdea"}

ServiceOps ==
  GroupIdOps \cup
  {"getGroups", "createGroup", "getPendingInvitations", "acceptInvitation",
   "rejectInvitation"}

WriteOps == ServiceOps \ ReadOps

\* The operations that return the entity of the response and throw without it.
EntityOps == {"createGroup", "updateGroup", "createGiftIdea", "updateGiftIdea"}

\* The apiClient method each operation calls.
ApiMethodOf(op) ==
  CASE op = "getGroupById" -> "getGroup"
    [] op = "inviteUser" -> "inviteUserToGroup"
    [] OTHER -> op

HttpMethodOf(op) ==
  CASE op \in ReadOps -> "GET"
    [] op \in {"updateGroup", "updateGiftIdea"} -> "PUT"
    [] op \in {"deleteGroup", "cancelInvitation", "removeMember", "deleteAssignments",
               "deleteGiftIdea"} -> "DELETE"
    [] OTHER -> "POST"

\* The endpoint of each apiClient method; id is the parsed group ID.
EndpointOf(op, id) ==
  LET g == <<"/api/groups/", ToString(id)>> IN
  CASE op \in {"getGroups", "createGroup"} -> <<"/api/groups">>
    [] op \in {"getGroupById", "updateGroup", "deleteGroup"} -> g
    [] op = "inviteUser" -> g \o <<"/invite">>
    [] op = "getPendingInvitations" -> <<"/api/groups/invitations/pending">>
    [] op = "acceptInvitation" -> <<"/api/groups/invitations/", ":invitationId", "/accept">>
    [] op = "rejectInvitation" -> <<"/api/groups/invitations/", ":invitationId", "/reject">>
    [] op = "cancelInvitation" -> g \o <<"/invitations/", ":invitationId">>
    [] op = "removeMember" -> g \o <<"/members/", ":userId">>
    [] op = "assignSecretSanta" -> g \o <<"/assign">>
    [] op = "getAssignment" -> g \o <<"/assignment">>
    [] op = "deleteAssignments" -> g \o <<"/assignments">>
    [] op \in {"createGiftIdea", "getGiftIdeas"} -> g \o <<"/gift-ideas">>
    [] op \in {"updateGiftIdea", "deleteGiftIdea"} -> g \o <<"/gift-ideas/", ":ideaId">>
    [] OTHER -> <<"?">>

\* The member of response.data an operation reads.
DataKeyOf(op) ==
  CASE op = "getGroups" -> "groups"
    [] op \in {"getGroupById", "createGroup", "updateGroup"} -> "group"
    [] op = "getPendingInvitations" -> "invitations"
    [] op = "getAssignment" -> "assignment"
    [] op = "getGiftIdeas" -> "gift_ideas"
    [] op \in {"createGiftIdea", "updateGiftIdea"} -> "gift_idea"
    [] OTHER -> "message"

\* Values a service operation returns.
NullValue == [type |-> "null"]
List(items) == [type |-> "list", items |-> items]
Object(value) == [type |-> "object", value |-> value]
Void == [type |-> "void"]

\* What a read operation returns when it gives up.
EmptyResult(op) ==
  IF op \in {"getGroupById", "getAssignment"} THEN NullValue ELSE List(<<>>)

GroupServiceError(appError) ==
  [name |-> "GroupServiceError", message |-> appError.userMessage, appError |-> appError]

\* The AppError of a group ID that does not parse.
InvalidGroupId(groupId) ==
  [type |-> "VALIDATION",
   message |-> [text |-> "Invalid group ID: ", groupId |-> groupId, has |-> {}],
   statusCode |-> Null,
   userMessage |-> "Invalid group ID"]

Returned(call, value) == [call EXCEPT !.state = "returned", !.ret = Some(value)]
Threw(call, exception) == [call EXCEPT !.state = "threw", !.thrown = Some(exception)]

\* The frame of a service call: the operation and its groupId argument, the
\* requests it has put on the wire, how fetch ended (the adapter's frame),
\* the local variable response, and what the call returned or threw.
IdleCall ==
  [state |-> "idle", op |-> "", groupId |-> Null, requests |-> <<>>,
   fetched |-> Null, response |-> Null, ret |-> Null, thrown |-> Null]

\* A rejection that throws from the read operations too.
RejectGroupIdThrowing(call) ==
  Threw(call, GroupServiceError(InvalidGroupId(The(call.groupId))))

\* A rejection that lets the write operations return as if they had succeeded.
RejectGroupIdSilently(call) ==
  IF call.op \in ReadOps THEN Returned(call, EmptyResult(call.op)) ELSE Returned(call, Void)

\* if (isNaN(id)) { ... }: a read operation logs and returns its empty
\* result, a write operation throws a validation error.
RejectGroupId(call) ==
  IF call.op \in ReadOps
    THEN Returned(call, EmptyResult(call.op))
    ELSE Threw(call, GroupServiceError(InvalidGroupId(The(call.groupId))))

\* A service operation up to its first await: the group ID is parsed and
\* checked, then the apiClient method is called.
ServiceEnter(op, groupId, tok) ==
  LET call == [IdleCall EXCEPT !.op = op,
                 !.groupId = IF op \in GroupIdOps THEN Some(groupId) ELSE Null]
      id == IF op \in GroupIdOps THEN parseInt(groupId) ELSE Num(0)
  IN  IF op \in GroupIdOps /\ isNaN(id)
        THEN RejectGroupId(call)
      ELSE IF ApiMethodOf(op) \notin ApiMethods
        THEN Threw(call, [name |-> "TypeError",
                          message |-> "apiClient method is not a function"])
      ELSE [call EXCEPT !.state = "awaiting",
              !.requests = <<Request(ApiMethodOf(op), HttpMethodOf(op),
                                     EndpointOf(op, id.n), tok)>>]

\* A handling of the adapter's error that classifies its message anew.
AppErrorReparsed(response) ==
  parseError([name |-> "String", message |-> Msg(response.error, {})])

\* response.appError || parseError(response.error); the adapter always
\* supplies appError, so the keywords of the bare string are not tracked.
AppErrorOf(response) ==
  IF "appError" \in DOMAIN response
    THEN response.appError
    ELSE parseError([name |-> "String", message |-> Msg(response.error, {})])

\* A reading of the response that never surfaces the assignment.
ReadValueWithoutAssignment(op, response) ==
  LET key == DataKeyOf(op) IN
  IF "data" \notin DOMAIN response \/ key \notin DOMAIN response.data
    THEN EmptyResult(op)
  ELSE LET v == response.data[key] IN
    CASE op = "getAssignment" -> NullValue
      [] op = "getGroupById" -> Object(v)
      [] OTHER -> List(v)

\* response.data?.key || fallback, for a read operation
ReadValue(op, response) ==
  LET key == DataKeyOf(op) IN
  IF "data" \notin DOMAIN response \/ key \notin DOMAIN response.data
    THEN EmptyResult(op)
  ELSE LET v == response.data[key] IN
    CASE op = "getAssignment" -> IF v = Null THEN NullValue ELSE Object(The(v))
      [] op = "getGroupById" -> Object(v)
      [] OTHER -> List(v)

\* A handling of the adapter's error that throws from the read operations too.
ServiceFailThrowing(call, response) ==
  Threw(call, GroupServiceError(response.appError))

\* A handling of the adapter's error that sends the request once more.
ServiceFailRetrying(call, response) ==
  IF Len(call.requests) < 2
    THEN [call EXCEPT !.state = "awaiting", !.requests = @ \o <<@[1]>>]
  ELSE IF call.op \in ReadOps
    THEN Returned(call, EmptyResult(call.op))
    ELSE Threw(call, GroupServiceError(response.appError))

\* if (response.error) { ... }: a read operation logs and returns its empty
\* result, a write operation throws what the adapter classified.
ServiceFail(call, response) ==
  IF call.op \in ReadOps
    THEN Returned(call, EmptyResult(call.op))
    ELSE Threw(call, GroupServiceError(AppErrorOf(response)))

\* A service operation from the adapter's answer to its end.
ServiceResume(call, response) ==
  LET op == call.op IN
  IF "error" \in DOMAIN response /\ response.error # ""
    THEN ServiceFail(call, response)
  ELSE IF op \in ReadOps
    THEN Returned(call, ReadValue(op, response))
  ELSE IF op \in EntityOps
    THEN IF "data" \notin DOMAIN response \/ DataKeyOf(op) \notin DOMAIN response.data
           THEN Threw(call, GroupServiceError(
                  [type |-> "API",
                   message |-> IF DataKeyOf(op) = "group"
                                 THEN Msg("No group data returned", {})
                                 ELSE Msg("No gift idea data returned", {}),
                   statusCode |-> Null,
                   userMessage |-> CASE op = "createGroup" ->
                                          "Failed to create group. Please try again."
                                     [] op = "updateGroup" ->
                                          "Failed to update group. Please try again."
                                     [] op = "createGiftIdea" ->
                                          "Failed to create gift idea. Please try again."
                                     [] OTHER ->
                                          "Failed to update gift idea. Please try again."]))
           ELSE Returned(call, Object(response.data[DataKeyOf(op)]))
  ELSE Returned(call, Void)

\* The screens of the signed-in application are mounted.
Mounted == isAuthenticated /\ ~isLoading

\* A screen handler calls a service operation, with a group ID among ids
\* when the operation takes one.
ServiceCall(ids) ==
  /\ Mounted
  /\ svc.state = "idle"
  /\ \E op \in ServiceOps :
       \E groupId \in (IF op \in GroupIdOps THEN ids ELSE {<<>>}) :
         svc' = ServiceEnter(op, groupId, token)
  /\ UNCHANGED <<storage, token, authVars, pcAuth, authReq, authData, authResponse, authRet, screenVars>>

\* The request of the service operation settles and the operation finishes.
ServiceSettle ==
  /\ svc.state = "awaiting"
  /\ \E outcome \in Outcomes(svc.requests[1]) :
       LET response == requestResult(outcome) IN
       svc' = ServiceResume([svc EXCEPT !.fetched = Some(outcome),
                                        !.response = Some(response)], response)
  /\ UNCHANGED <<storage, token, authVars, pcAuth, authReq, authData, authResponse, authRet, screenVars>>

\* The handler that made the call has taken what it returned or threw.
ServiceDone ==
  /\ svc.state \in {"returned", "threw"}
  /\ svc' = IdleCall
  /\ UNCHANGED <<storage, token, authVars, pcAuth, authReq, authData, authResponse, authRet, screenVars>>

(***************************************************************************)
(* src/context/AuthContext.tsx                                             *)
(***************************************************************************)
TOKEN_KEY == "@auth_token"
USER_KEY == "@auth_user"

\* AsyncStorage.setItem and AsyncStorage.multiRemove
setItem(store, key, value) ==
  [k \in DOMAIN store \cup {key} |-> IF k = key THEN value ELSE store[k]]
multiRemove(store, keys) == [k \in DOMAIN store \ keys |-> store[k]]

\* JSON.stringify(user), and a stored string JSON.parse throws on
stringify(user) == [json |-> user]
Garbled == [garbled |-> TRUE]
parses(str) == "json" \in DOMAIN str

\* What the device may hold when the application starts: each key absent or
\* present, the identity possibly unreadable.
InitialStorage ==
  LET tokens == {TOKEN_KEY :> t : t \in Tokens}
      identities == {USER_KEY :> v : v \in {stringify(u) : u \in Users} \cup {Garbled}}
  IN  {multiRemove(TOKEN_KEY :> "", {TOKEN_KEY})} \cup tokens \cup identities
      \cup {t @@ v : t \in tokens, v \in identities}

Idle == <<"idle", "">>

\* { error: null } and { error: { message } }
NoError == [error |-> Null]
ErrorReturn(message) == [error |-> Some([message |-> message])]

\* response.appError?.userMessage || response.error
ErrorMessageOf(response) ==
  IF "appError" \in DOMAIN response THEN response.appError.userMessage ELSE response.error

\* A startup that marks the session authenticated from the persisted identity
\* before getMe is called.
checkAuthEager ==
  /\ pcAuth = <<"checkAuth", "start">>
  /\ IF {TOKEN_KEY, USER_KEY} \subseteq DOMAIN storage
       THEN /\ token' = Some(storage[TOKEN_KEY])
            /\ IF parses(storage[USER_KEY])
                 THEN /\ authReq' = Some(Request("getMe", "GET", <<"/api/auth/me">>, token'))
                      /\ pcAuth' = <<"checkAuth", "getMe">>
                      /\ isAuthenticated' = TRUE
                 ELSE /\ authReq' = Null
                      /\ pcAuth' = <<"checkAuth", "catch">>
                      /\ UNCHANGED isAuthenticated
            /\ UNCHANGED isLoading
       ELSE /\ isLoading' = FALSE
            /\ pcAuth' = Idle
            /\ UNCHANGED <<token, authReq, isAuthenticated>>
  /\ UNCHANGED <<storage, userId, username, displayName, imageUrl,
                 authData, authResponse, authRet, svc, screenVars>>

\* checkAuth, lines 46-55: the persisted token and identity are read; with
\* both present the adapter token is set, the identity is parsed and getMe
\* is called.
checkAuth ==
  /\ pcAuth = <<"checkAuth", "start">>
  /\ IF {TOKEN_KEY, USER_KEY} \subseteq DOMAIN storage
       THEN /\ token' = Some(storage[TOKEN_KEY])
            /\ IF parses(storage[USER_KEY])
                 THEN /\ authReq' = Some(Request("getMe", "GET", <<"/api/auth/me">>, token'))
                      /\ pcAuth' = <<"checkAuth", "getMe">>
                 ELSE /\ authReq' = Null
                      /\ pcAuth' = <<"checkAuth", "catch">>
            /\ UNCHANGED isLoading
       ELSE /\ isLoading' = FALSE
            /\ pcAuth' = Idle
            /\ UNCHANGED <<token, authReq>>
  /\ UNCHANGED <<storage, isAuthenticated, userId, username, displayName, imageUrl,
                 authData, authResponse, authRet, svc, screenVars>>

\* checkAuth, line 55: const response = await apiClient.getMe()
checkAuthAnswered ==
  /\ pcAuth = <<"checkAuth", "getMe">>
  /\ \E outcome \in Outcomes(The(authReq)) :
       authResponse' = Some(requestResult(outcome))
  /\ authReq' = Null
  /\ pcAuth' = <<"checkAuth", "answered">>
  /\ UNCHANGED <<storage, token, authVars, authData, authRet, svc, screenVars>>

\* checkAuth, lines 56-63 and 72-74: if (response.data) the identity of the
\* answer is taken and the session is authenticated; else the purge follows.
checkAuthVerified ==
  /\ pcAuth = <<"checkAuth", "answered">>
  /\ LET response == The(authResponse) IN
       IF "data" \in DOMAIN response
         THEN /\ isAuthenticated' = TRUE
              /\ userId' = Some(response.data.user.id)
              /\ username' = Some(response.data.user.username)
              /\ displayName' = Some(response.data.user.display_name)
              /\ imageUrl' = response.data.user.image_url
              /\ isLoading' = FALSE
              /\ pcAuth' = Idle
         ELSE /\ pcAuth' = <<"checkAuth", "else">>
              /\ UNCHANGED authVars
  /\ UNCHANGED authResponse
  /\ UNCHANGED <<storage, token, authReq, authData, authRet, svc, screenVars>>

\* checkAuth, lines 64 and 70: AsyncStorage.multiRemove([TOKEN_KEY, USER_KEY])
checkAuthRemove ==
  /\ pcAuth \in {<<"checkAuth", "else">>, <<"checkAuth", "catch">>}
  /\ storage' = multiRemove(storage, {TOKEN_KEY, USER_KEY})
  /\ pcAuth' = <<"checkAuth", "clear">>
  /\ UNCHANGED <<token, authVars, authReq, authData, authResponse, authRet, svc, screenVars>>

\* An end of the failed startup that leaves the adapter token in place.
checkAuthClearKeepingToken ==
  /\ pcAuth = <<"checkAuth", "clear">>
  /\ isLoading' = FALSE
  /\ pcAuth' = Idle
  /\ UNCHANGED <<storage, token, isAuthenticated, userId, username, displayName, imageUrl,
                 authReq, authData, authResponse, authRet, svc, screenVars>>

\* checkAuth, lines 65, 71 and 73: setToken(null); finally setIsLoading(false)
checkAuthClear ==
  /\ pcAuth = <<"checkAuth", "clear">>
  /\ token' = Null
  /\ isLoading' = FALSE
  /\ pcAuth' = Idle
  /\ UNCHANGED <<storage, isAuthenticated, userId, username, displayName, imageUrl,
                 authReq, authData, authResponse, authRet, svc, screenVars>>

\* The login and signup screens are shown.
SignedOutScreens == ~isLoading /\ ~isAuthenticated

\* signIn and signUp, up to the await of apiClient.login / register
Authenticate(op, api, endpoint) ==
  /\ pcAuth = Idle
  /\ SignedOutScreens
  /\ authReq' = Some(Request(api, "POST", endpoint, token))
  /\ pcAuth' = <<op, "await">>
  /\ authResponse' = Null
  /\ authRet' = Null
  /\ UNCHANGED <<storage, token, authVars, authData, svc, screenVars>>

signIn == Authenticate("signIn", "login", <<"/api/auth/login">>)
signUp == Authenticate("signUp", "register", <<"/api/auth/register">>)

\* signIn / signUp: the remote call has answered.
authenticateAnswered ==
  /\ pcAuth \in {<<"signIn", "await">>, <<"signUp", "await">>}
  /\ \E outcome \in Outcomes(The(authReq)) :
       LET response == requestResult(outcome) IN
       /\ IF "error" \in DOMAIN response /\ response.error # ""
            THEN /\ authRet' = Some(ErrorReturn(ErrorMessageOf(response)))
                 /\ pcAuth' = Idle
                 /\ authResponse' = Null
                 /\ UNCHANGED authData
            ELSE IF "data" \in DOMAIN response
              THEN /\ authData' = Some(response.data)
                   /\ pcAuth' = <<pcAuth[1], "setToken">>
                   /\ authResponse' = Some(response)
                   /\ UNCHANGED authRet
              ELSE /\ authRet' = Some(NoError)
                   /\ pcAuth' = Idle
                   /\ authResponse' = Null
                   /\ UNCHANGED authData
  /\ authReq' = Null
  /\ UNCHANGED <<storage, token, authVars, svc, screenVars>>

\* A persisting that writes the identity first.
authenticateSetIdentityFirst ==
  /\ pcAuth \in {<<"signIn", "setToken">>, <<"signUp", "setToken">>}
  /\ storage' = setItem(storage, USER_KEY, stringify(The(authData).user))
  /\ pcAuth' = <<pcAuth[1], "setUser">>
  /\ UNCHANGED <<token, authVars, authReq, authData, authResponse, authRet, svc, screenVars>>

\* await AsyncStorage.setItem(TOKEN_KEY, token)
authenticateSetToken ==
  /\ pcAuth \in {<<"signIn", "setToken">>, <<"signUp", "setToken">>}
  /\ storage' = setItem(storage, TOKEN_KEY, The(authData).token)
  /\ pcAuth' = <<pcAuth[1], "setUser">>
  /\ UNCHANGED <<token, authVars, authReq, authData, authResponse, authRet, svc, screenVars>>

\* await AsyncStorage.setItem(USER_KEY, JSON.stringify(user))
authenticateSetUser ==
  /\ pcAuth \in {<<"signIn", "setUser">>, <<"signUp", "setUser">>}
  /\ storage' = setItem(storage, USER_KEY, stringify(The(authData).user))
  /\ pcAuth' = <<pcAuth[1], "finish">>
  /\ UNCHANGED <<token, authVars, authReq, authData, authResponse, authRet, svc, screenVars>>

\* apiClient.setToken(token); setIsAuthenticated(true); ...; return { error: null }
authenticateFinish ==
  /\ pcAuth \in {<<"signIn", "finish">>, <<"signUp", "finish">>}
  /\ LET user == The(authData).user IN
       /\ token' = Some(The(authData).token)
       /\ isAuthenticated' = TRUE
       /\ userId' = Some(user.id)
       /\ username' = Some(user.username)
       /\ displayName' = Some(user.display_name)
       /\ imageUrl' = user.image_url
  /\ authData' = Null
  /\ authResponse' = Null
  /\ authRet' = Some(NoError)
  /\ pcAuth' = Idle
  /\ UNCHANGED <<storage, isLoading, authReq, svc, screenVars>>

\* signOut is called from a screen.
signOut ==
  /\ pcAuth = Idle
  /\ Mounted
  /\ pcAuth' = <<"signOut", "remove">>
  /\ authResponse' = Null
  /\ authRet' = Null
  /\ UNCHANGED <<storage, token, authVars, authReq, authData, svc, screenVars>>

\* deleteAccount, up to the await of apiClient.deleteAccount
deleteAccount ==
  /\ pcAuth = Idle
  /\ Mounted
  /\ authReq' = Some(Request("deleteAccount", "DELETE", <<"/api/auth/account">>, token))
  /\ pcAuth' = <<"deleteAccount", "await">>
  /\ authResponse' = Null
  /\ authRet' = Null
  /\ UNCHANGED <<storage, token, authVars, authData, svc, screenVars>>

\* deleteAccount: the remote call has answered; on success signOut is awaited.
deleteAccountAnswered ==
  /\ pcAuth = <<"deleteAccount", "await">>
  /\ \E outcome \in Outcomes(The(authReq)) :
       LET response == requestResult(outcome) IN
       /\ IF "error" \in DOMAIN response /\ response.error # ""
            THEN /\ authRet' = Some(ErrorReturn(ErrorMessageOf(response)))
                 /\ pcAuth' = Idle
                 /\ authResponse' = Null
            ELSE /\ pcAuth' = <<"deleteAccount", "remove">>
                 /\ authResponse' = Some(response)
                 /\ UNCHANGED authRet
  /\ authReq' = Null
  /\ UNCHANGED <<storage, token, authVars, authData, svc, screenVars>>

\* A purge that removes the token and leaves the identity.
signOutRemoveTokenOnly ==
  /\ pcAuth \in {<<"signOut", "remove">>, <<"deleteAccount", "remove">>}
  /\ storage' = multiRemove(storage, {TOKEN_KEY})
  /\ pcAuth' = <<pcAuth[1], "clear">>
  /\ UNCHANGED <<token, authVars, authReq, authData, authResponse, authRet, svc, screenVars>>

\* signOut, line 200: await AsyncStorage.multiRemove([TOKEN_KEY, USER_KEY])
signOutRemove ==
  /\ pcAuth \in {<<"signOut", "remove">>, <<"deleteAccount", "remove">>}
  /\ storage' = multiRemove(storage, {TOKEN_KEY, USER_KEY})
  /\ pcAuth' = <<pcAuth[1], "clear">>
  /\ UNCHANGED <<token, authVars, authReq, authData, authResponse, authRet, svc, screenVars>>

\* A sign-out that clears the state of the provider and leaves the adapter
\* token in place.
signOutClearKeepingToken ==
  /\ pcAuth \in {<<"signOut", "clear">>, <<"deleteAccount", "clear">>}
  /\ isAuthenticated' = FALSE
  /\ userId' = Null
  /\ username' = Null
  /\ displayName' = Null
  /\ imageUrl' = Null
  /\ authRet' = IF pcAuth[1] = "deleteAccount" THEN Some(NoError) ELSE Null
  /\ pcAuth' = Idle
  /\ authResponse' = Null
  /\ UNCHANGED <<storage, token, isLoading, authReq, authData, svc, screenVars>>

\* signOut, lines 201-206; deleteAccount then returns { error: null }
signOutClear ==
  /\ pcAuth \in {<<"signOut", "clear">>, <<"deleteAccount", "clear">>}
  /\ token' = Null
  /\ isAuthenticated' = FALSE
  /\ userId' = Null
  /\ username' = Null
  /\ displayName' = Null
  /\ imageUrl' = Null
  /\ authRet' = IF pcAuth[1] = "deleteAccount" THEN Some(NoError) ELSE Null
  /\ pcAuth' = Idle
  /\ authResponse' = Null
  /\ UNCHANGED <<storage, isLoading, authReq, authData, svc, screenVars>>

(***************************************************************************)
(* The system                                                              *)
(***************************************************************************)
IdChars == {"0", "7", "-", "x", " "}
GroupIds == UNION {[1..n -> IdChars] : n \in 0..MaxIdLen}

\* The group IDs the screens pass while the session changes under them: one
\* that parses and one that does not.
SampleIds == {<<"7">>, <<"x">>}

(***************************************************************************)
(* The backend, as the screens of one signed-in user see it                *)
(***************************************************************************)
\* The invitations that can be pending for the user, and the group of each.
InvitationIds == {5, 6}
GroupOfInvitation(invitationId) == IF invitationId = 5 THEN 8 ELSE 9

\* The group GroupDetailScreen is opened on (its groupId prop): the group of
\* alice, with bob as its member.
DetailGroupId == <<"7">>
DetailGroup == [id |-> 7, created_by |-> 1]

\* What the backend holds: the pending invitations and the groups of the
\* user, and of the group on display its members besides the owner, whether
\* it lists the owner among the members it sends (the member list renders
\* an Owner badge for that case), its pending invitations,
\* the receiver paired with the user, the gift ideas of the user and
\* whether it has an image.
InitialServer ==
  [invitations |-> InvitationIds, groups |-> {7}, members |-> {2}, ownerListed |-> FALSE,
   pending |-> {}, assignment |-> Null, ideas |-> {}, image |-> FALSE]

RECURSIVE Ascending(_)
\* The elements of a set of numbers as a list, in ascending order.
Ascending(S) ==
  IF S = {} THEN <<>>
  ELSE LET least == CHOOSE x \in S : \A y \in S : x <= y
       IN  <<least>> \o Ascending(S \ {least})

ListOf(S, Item(_)) == LET ids == Ascending(S) IN [k \in 1..Len(ids) |-> Item(ids[k])]

GroupSummary(id) == [id |-> id]
InvitationOf(id) == [id |-> id, group_id |-> GroupOfInvitation(id)]
MemberOf(id) == [id |-> id]
PendingInvitationOf(id) == [invitation_id |-> id]
\* The gift idea of another member, which the backend lists as well.
ForeignIdea == [id |-> 4, created_by_id |-> 3]

GroupData(s) ==
  [id |-> DetailGroup.id, created_by |-> DetailGroup.created_by,
   members |-> ListOf(IF s.ownerListed THEN s.members \cup {DetailGroup.created_by}
                                      ELSE s.members, MemberOf),
   pending_invitations |-> ListOf(s.pending, PendingInvitationOf),
   image_url |-> IF s.image THEN Some("data:image/jpeg;base64") ELSE Null]

\* The states the backend can be in after it has carried out a request;
\* none when it refuses the request.  A pairing gives the user the owner
\* or any member as receiver: the backend is not assumed to exclude the
\* user itself.
Served(op, arg, s, me) ==
  CASE op = "acceptInvitation" ->
         IF arg \in s.invitations
           THEN {[s EXCEPT !.invitations = @ \ {arg},
                           !.groups = @ \cup {GroupOfInvitation(arg)}]}
           ELSE {}
    [] op = "rejectInvitation" ->
         IF arg \in s.invitations THEN {[s EXCEPT !.invitations = @ \ {arg}]} ELSE {}
    [] op = "createGroup" ->
         IF 10 \notin s.groups THEN {[s EXCEPT !.groups = @ \cup {10}]} ELSE {}
    [] op = "deleteGroup" ->
         IF 7 \in s.groups THEN {[s EXCEPT !.groups = @ \ {7}]} ELSE {}
    [] op = "updateGroup" -> {[s EXCEPT !.image = TRUE]}
    [] op = "inviteUser" ->
         IF 12 \notin s.pending THEN {[s EXCEPT !.pending = @ \cup {12}]} ELSE {}
    [] op = "cancelInvitation" ->
         IF arg \in s.pending THEN {[s EXCEPT !.pending = @ \ {arg}]} ELSE {}
    [] op = "removeMember" ->
         IF arg \in s.members THEN {[s EXCEPT !.members = @ \ {arg}]} ELSE {}
    [] op = "assignSecretSanta" ->
         IF Cardinality(s.members) + 1 >= 2
           THEN {[s EXCEPT !.assignment = Some(r)] :
                   r \in s.members \cup {DetailGroup.created_by}}
           ELSE {}
    [] op = "deleteAssignments" -> {[s EXCEPT !.assignment = Null]}
    [] op = "createGiftIdea" ->
         IF 9 \notin s.ideas THEN {[s EXCEPT !.ideas = @ \cup {9}]} ELSE {}
    [] op = "updateGiftIdea" -> IF arg \in s.ideas THEN {s} ELSE {}
    [] op = "deleteGiftIdea" ->
         IF arg \in s.ideas THEN {[s EXCEPT !.ideas = @ \ {arg}]} ELSE {}
    [] OTHER -> {s}

\* The body of the 2xx answer to a request the backend has carried out,
\* from the state s it is in afterwards.
ServerBody(op, arg, s, me) ==
  CASE op = "getGroups" -> [groups |-> ListOf(s.groups, GroupSummary)]
    [] op = "getPendingInvitations" -> [invitations |-> ListOf(s.invitations, InvitationOf)]
    [] op \in {"getGroupById", "updateGroup"} -> [group |-> GroupData(s)]
    [] op = "createGroup" -> [group |-> GroupSummary(10)]
    [] op = "getAssignment" ->
         [assignment |-> IF s.assignment = Null THEN Null
                         ELSE Some([receiver_id |-> The(s.assignment)])]
    [] op = "getGiftIdeas" ->
         [gift_ideas |->
            ListOf(s.ideas, LAMBDA id : [id |-> id, created_by_id |-> me]) \o <<ForeignIdea>>]
    [] op \in {"createGiftIdea", "updateGiftIdea"} ->
         [gift_idea |-> [id |-> 9, created_by_id |-> me]]
    [] OTHER -> [message |-> "done"]

Answer200(body) ==
  [kind |-> "response",
   response |-> [status |-> 200, contentType |-> "application/json; charset=utf-8",
                 body |-> [parses |-> TRUE, json |-> body]]]

\* The way a request of a screen fails: the backend refuses it.
ScreenFailures ==
  {[kind |-> "response",
    response |-> [status |-> 403, contentType |-> "application/json; charset=utf-8",
                  body |-> [parses |-> TRUE, json |-> [error |-> "Rejected by the server"]]]]}

(***************************************************************************)
(* The asynchronous functions of the mounted screen                        *)
(***************************************************************************)
\* mount and mountInvitations are the loads of the screen's effect or of a
\* pull to refresh, handler
\* is the handler the user set off, deferred is the callback handed to
\* InteractionManager.runAfterInteractions.
ProcNames == {"mount", "mountInvitations", "handler", "deferred"}

\* A function in progress: the handler it belongs to and the service
\* operation it awaits, the argument of the handler, and the outcome of the
\* fetch once the backend has answered.
IdleProc == [pc |-> Idle, arg |-> 0, answer |-> Null]
Awaiting(handler, op, arg) == [pc |-> <<handler, op>>, arg |-> arg, answer |-> Null]
NoProcs == [p \in ProcNames |-> IdleProc]

sessionVars ==
  <<storage, token, authVars, pcAuth, authReq, authData, authResponse, authRet, svc,
    app, login>>

\* The backend answers the request a function awaits: it carries the
\* request out and answers from its new state, or the request fails.
ServerAnswers ==
  /\ \E p \in ProcNames :
       LET proc == procs[p]
           op == proc.pc[2]
       IN  /\ op \in ServiceOps
           /\ proc.answer = Null
           /\ \/ \E s \in Served(op, proc.arg, server, The(userId)) :
                   /\ server' = s
                   /\ procs' = [procs EXCEPT ![p].answer =
                                  Some(Answer200(ServerBody(op, proc.arg, s, The(userId))))]
              \/ \E failure \in ScreenFailures :
                   /\ procs' = [procs EXCEPT ![p].answer = Some(failure)]
                   /\ UNCHANGED server
  /\ UNCHANGED <<sessionVars, screen, home, detail, alert>>

\* The service operation a function awaits, run on the answer to its end.
Settled(proc) ==
  LET entered == ServiceEnter(proc.pc[2], DetailGroupId, token)
      response == requestResult(The(proc.answer))
  IN  IF entered.state # "awaiting" THEN entered
      ELSE ServiceResume([entered EXCEPT !.fetched = proc.answer,
                                         !.response = Some(response)], response)

\* error instanceof GroupServiceError ? error.appError.userMessage
\*                                    : getErrorMessage(error)
AlertMessage(error) ==
  IF error.name = "GroupServiceError" THEN error.appError.userMessage
  ELSE getErrorMessage(error)

\* The user dismisses the Alert.
DismissAlert ==
  /\ alert # Null
  /\ alert' = Null
  /\ UNCHANGED <<sessionVars, server, screen, home, detail, procs>>

(***************************************************************************)
(* HomeScreen                                                              *)
(***************************************************************************)
\* The state HomeScreen is constructed with.
HomeInitial ==
  [groups |-> <<>>, invitations |-> <<>>, loading |-> TRUE, loadingInvitations |-> TRUE,
   modalVisible |-> FALSE, creating |-> FALSE]

\* useEffect: loadGroups() and loadInvitations() are both under way.
HomeProcs ==
  [NoProcs EXCEPT !["mount"] = Awaiting("useEffect", "getGroups", 0),
                  !["mountInvitations"] = Awaiting("useEffect", "getPendingInvitations", 0)]

\* The user can press a control: nothing modal is on display, no pull to
\* refresh is under way, the handler of the last press has finished and the
\* interactions it left have run.
CanPress ==
  /\ alert = Null
  /\ procs["mount"].pc[1] # "onRefresh" /\ procs["mountInvitations"].pc[1] # "onRefresh"
  /\ procs["handler"] = IdleProc
  /\ procs["deferred"].pc[2] # "runAfterInteractions"

\* HomeScreen renders its controls: with loading set and no groups it
\* returns the header and the spinner alone.
HomeRendered == ~(home.loading /\ home.groups = <<>>)

\* The user can press a control of HomeScreen: it is rendered, nothing modal
\* is on display, the handler of the last press has finished and the
\* interactions it left have run. A pull to refresh in progress does not
\* stand in the way.
HomeCanPress ==
  /\ HomeRendered
  /\ alert = Null
  /\ procs["handler"] = IdleProc
  /\ procs["deferred"].pc[2] # "runAfterInteractions"

\* A handler of an accepted invitation that reloads the invitations only.
homeInvitationsLoadedOnly(p) ==
  LET call == Settled(procs[p]) IN
  /\ home' = [home EXCEPT !.invitations = IF call.state = "returned"
                                            THEN The(call.ret).items ELSE @,
                          !.loadingInvitations = FALSE]
  /\ procs' = [procs EXCEPT ![p] = IdleProc]

\* loadInvitations from its await on; handleAcceptInvitation goes on to
\* loadGroups(), up to its await.
homeInvitationsLoaded(p) ==
  LET call == Settled(procs[p]) IN
  /\ home' = [home EXCEPT !.invitations = IF call.state = "returned"
                                            THEN The(call.ret).items ELSE @,
                          !.loadingInvitations = FALSE,
                          !.loading = IF procs[p].pc[1] = "handleAcceptInvitation"
                                        THEN TRUE ELSE @]
  /\ procs' = [procs EXCEPT ![p] =
                 IF procs[p].pc[1] = "handleAcceptInvitation"
                   THEN Awaiting("handleAcceptInvitation", "getGroups", procs[p].arg)
                   ELSE IdleProc]

\* getPendingInvitations has resolved for one of the functions awaiting it.
loadInvitations ==
  /\ screen = "home"
  /\ \E p \in ProcNames :
       /\ procs[p].pc[2] = "getPendingInvitations"
       /\ procs[p].answer # Null
       /\ homeInvitationsLoaded(p)
  /\ UNCHANGED <<sessionVars, server, screen, detail, alert>>

\* A loadGroups whose finally block ends the invitations' spinner as well.
loadGroupsClearingBothFlags ==
  /\ screen = "home"
  /\ \E p \in ProcNames :
       /\ procs[p].pc[2] = "getGroups"
       /\ procs[p].answer # Null
       /\ LET call == Settled(procs[p]) IN
          /\ home' = [home EXCEPT !.groups = IF call.state = "returned"
                                               THEN The(call.ret).items ELSE @,
                                  !.loading = FALSE,
                                  !.loadingInvitations = FALSE]
          /\ alert' = IF call.state = "threw"
                        THEN Some(AlertMessage(The(call.thrown))) ELSE alert
       /\ procs' = [procs EXCEPT ![p] = IdleProc]
  /\ UNCHANGED <<sessionVars, server, screen, detail>>

\* loadGroups from its await on, for one of the functions awaiting
\* getGroups.
loadGroups ==
  /\ screen = "home"
  /\ \E p \in ProcNames :
       /\ procs[p].pc[2] = "getGroups"
       /\ procs[p].answer # Null
       /\ LET call == Settled(procs[p]) IN
          /\ home' = [home EXCEPT !.groups = IF call.state = "returned"
                                               THEN The(call.ret).items ELSE @,
                                  !.loading = FALSE]
          /\ alert' = IF call.state = "threw"
                        THEN Some(AlertMessage(The(call.thrown))) ELSE alert
       /\ procs' = [procs EXCEPT ![p] = IdleProc]
  /\ UNCHANGED <<sessionVars, server, screen, detail>>

\* The user presses Accept on a displayed invitation: handleAcceptInvitation
\* up to its first await.
handleAcceptInvitation ==
  /\ screen = "home"
  /\ HomeCanPress
  /\ ~home.loadingInvitations
  /\ \E k \in DOMAIN home.invitations :
       procs' = [procs EXCEPT !["handler"] =
                   Awaiting("handleAcceptInvitation", "acceptInvitation",
                            home.invitations[k].id)]
  /\ UNCHANGED <<sessionVars, server, screen, home, detail, alert>>

\* The user presses Reject on a displayed invitation and confirms: the
\* onPress of handleRejectInvitation up to its first await.
handleRejectInvitation ==
  /\ screen = "home"
  /\ HomeCanPress
  /\ ~home.loadingInvitations
  /\ \E k \in DOMAIN home.invitations :
       procs' = [procs EXCEPT !["handler"] =
                   Awaiting("handleRejectInvitation", "rejectInvitation",
                            home.invitations[k].id)]
  /\ UNCHANGED <<sessionVars, server, screen, home, detail, alert>>

\* A handler that goes on as if the invitation had been answered whatever
\* the service operation did.
homeInvitationAnsweredIgnoringFailure(call) ==
  /\ home' = [home EXCEPT !.loadingInvitations = TRUE]
  /\ procs' = [procs EXCEPT !["handler"] =
                 Awaiting(@.pc[1], "getPendingInvitations", @.arg)]
  /\ UNCHANGED alert

\* handleAcceptInvitation and handleRejectInvitation after the service
\* operation: on success loadInvitations() up to its await, otherwise the
\* catch block.
homeInvitationAnswered(call) ==
  IF call.state = "threw"
    THEN /\ alert' = Some(AlertMessage(The(call.thrown)))
         /\ procs' = [procs EXCEPT !["handler"] = IdleProc]
         /\ UNCHANGED home
    ELSE /\ home' = [home EXCEPT !.loadingInvitations = TRUE]
         /\ procs' = [procs EXCEPT !["handler"] =
                        Awaiting(@.pc[1], "getPendingInvitations", @.arg)]
         /\ UNCHANGED alert

\* acceptInvitation or rejectInvitation has resolved or thrown.
invitationAnswered ==
  /\ screen = "home"
  /\ procs["handler"].pc[2] \in {"acceptInvitation", "rejectInvitation"}
  /\ procs["handler"].answer # Null
  /\ homeInvitationAnswered(Settled(procs["handler"]))
  /\ UNCHANGED <<sessionVars, server, screen, detail>>

\* The user opens the modal of the new group.
openCreateModal ==
  /\ screen = "home"
  /\ HomeCanPress
  /\ ~home.modalVisible
  /\ home' = [home EXCEPT !.modalVisible = TRUE]
  /\ UNCHANGED <<sessionVars, server, screen, detail, alert, procs>>

\* handleCreateGroup up to its await, with a name entered and no image.
handleCreateGroup ==
  /\ screen = "home"
  /\ HomeCanPress
  /\ home.modalVisible
  /\ ~home.creating
  /\ procs["deferred"] = IdleProc
  /\ home' = [home EXCEPT !.creating = TRUE]
  /\ procs' = [procs EXCEPT !["handler"] = Awaiting("handleCreateGroup", "createGroup", 0)]
  /\ UNCHANGED <<sessionVars, server, screen, detail, alert>>

\* handleCreateGroup from its await on: the modal is closed and the
\* reload handed to runAfterInteractions, or the catch block; finally.
createGroupAnswered ==
  /\ screen = "home"
  /\ procs["handler"].pc[2] = "createGroup"
  /\ procs["handler"].answer # Null
  /\ LET call == Settled(procs["handler"]) IN
     IF call.state = "threw"
       THEN /\ alert' = Some(AlertMessage(The(call.thrown)))
            /\ home' = [home EXCEPT !.creating = FALSE]
            /\ procs' = [procs EXCEPT !["handler"] = IdleProc]
       ELSE /\ home' = [home EXCEPT !.modalVisible = FALSE, !.creating = FALSE]
            /\ procs' = [procs EXCEPT !["handler"] = IdleProc,
                                      !["deferred"] =
                                        [IdleProc EXCEPT !.pc = <<"handleCreateGroup",
                                                                  "runAfterInteractions">>]]
            /\ UNCHANGED alert
  /\ UNCHANGED <<sessionVars, server, screen, detail>>

\* The callback handed to runAfterInteractions runs: loadGroups() up to
\* its await.
homeAfterInteractions ==
  /\ screen = "home"
  /\ procs["deferred"].pc = <<"handleCreateGroup", "runAfterInteractions">>
  /\ home' = [home EXCEPT !.loading = TRUE]
  /\ procs' = [procs EXCEPT !["deferred"] = Awaiting("handleCreateGroup", "getGroups", 0)]
  /\ UNCHANGED <<sessionVars, server, screen, detail, alert>>

\* The user pulls the list of groups to refresh, which the list allows
\* while refreshing={loading || loadingInvitations} is false, with nothing
\* else in progress: loadGroups() and loadInvitations() up to their awaits.
homeOnRefresh ==
  /\ screen = "home"
  /\ alert = Null
  /\ home.groups # <<>>
  /\ ~home.loading /\ ~home.loadingInvitations
  /\ procs = NoProcs
  /\ home' = [home EXCEPT !.loading = TRUE, !.loadingInvitations = TRUE]
  /\ procs' = [procs EXCEPT !["mount"] = Awaiting("onRefresh", "getGroups", 0),
                            !["mountInvitations"] =
                              Awaiting("onRefresh", "getPendingInvitations", 0)]
  /\ UNCHANGED <<sessionVars, server, screen, detail, alert>>

(***************************************************************************)
(* GroupDetailScreen                                                       *)
(***************************************************************************)
\* The state GroupDetailScreen is constructed with.
DetailInitial ==
  [group |-> NullValue, loading |-> TRUE, refreshing |-> FALSE,
   assignment |-> NullValue, giftIdeas |-> <<>>,
   inviting |-> FALSE, assigning |-> FALSE, deletingAssignments |-> FALSE,
   updatingImage |-> FALSE, deleting |-> FALSE, savingGiftIdea |-> FALSE,
   deletingGiftIdea |-> Null]

\* useEffect: loadGroup() is under way.
DetailProcs == [NoProcs EXCEPT !["mount"] = Awaiting("useEffect", "getGroupById", 0)]

\* App.tsx: onBack() unmounts GroupDetailScreen; the run of the screen ends
\* here, and HomeScreen starts anew as HomeMounted describes.
onBack ==
  /\ screen' = "none"
  /\ home' = HomeInitial
  /\ detail' = DetailInitial
  /\ procs' = NoProcs

\* The handlers that await loadGroup() after their service operation, and
\* the handlers that hand it to runAfterInteractions.
ReloadingHandlers ==
  {"handleRemoveMember", "handleCancelInvitation", "handleAssignSecretSanta",
   "handleDeleteAssignments", "handleDeleteGiftIdea"}
DeferringHandlers == {"handleInvite", "handleSaveGiftIdea"}

\* The in-flight flag a handler sets before its service operation.
SetFlag(d, handler, arg) ==
  CASE handler = "handleInvite" -> [d EXCEPT !.inviting = TRUE]
    [] handler = "handleAssignSecretSanta" -> [d EXCEPT !.assigning = TRUE]
    [] handler = "handleDeleteAssignments" -> [d EXCEPT !.deletingAssignments = TRUE]
    [] handler = "handleSaveImage" -> [d EXCEPT !.updatingImage = TRUE]
    [] handler = "handleDelete" -> [d EXCEPT !.deleting = TRUE]
    [] handler = "handleSaveGiftIdea" -> [d EXCEPT !.savingGiftIdea = TRUE]
    [] handler = "handleDeleteGiftIdea" -> [d EXCEPT !.deletingGiftIdea = Some(arg)]
    [] OTHER -> d

\* A finally block that leaves the flag of the handler as it is.
ResetFlagLeftSet(d, handler) == d

\* The finally block of a handler.
ResetFlag(d, handler) ==
  CASE handler = "handleInvite" -> [d EXCEPT !.inviting = FALSE]
    [] handler = "handleAssignSecretSanta" -> [d EXCEPT !.assigning = FALSE]
    [] handler = "handleDeleteAssignments" -> [d EXCEPT !.deletingAssignments = FALSE]
    [] handler = "handleSaveImage" -> [d EXCEPT !.updatingImage = FALSE]
    [] handler = "handleDelete" -> [d EXCEPT !.deleting = FALSE]
    [] handler = "handleSaveGiftIdea" -> [d EXCEPT !.savingGiftIdea = FALSE]
    [] handler = "handleDeleteGiftIdea" -> [d EXCEPT !.deletingGiftIdea = Null]
    [] OTHER -> d

\* The screen renders the group: neither the spinner nor "Group not found".
GroupRendered == screen = "detail" /\ ~detail.loading /\ detail.group # NullValue

isOwner == GroupRendered /\ The(userId) = detail.group.value.created_by
hasAssignments == detail.assignment # NullValue

\* A handler up to its first await: it sets its flag and calls the
\* service operation.
Press(handler, op, arg) ==
  /\ GroupRendered
  /\ CanPress
  /\ detail' = SetFlag(detail, handler, arg)
  /\ procs' = [procs EXCEPT !["handler"] = Awaiting(handler, op, arg)]
  /\ UNCHANGED <<sessionVars, server, screen, home, alert>>

handleInvite ==
  /\ isOwner /\ ~hasAssignments /\ ~detail.inviting
  /\ procs["deferred"] = IdleProc
  /\ Press("handleInvite", "inviteUser", 0)

handleRemoveMember ==
  /\ isOwner /\ ~hasAssignments
  /\ \E k \in DOMAIN detail.group.value.members :
       /\ detail.group.value.members[k].id # The(userId)
       /\ detail.group.value.members[k].id # detail.group.value.created_by
       /\ Press("handleRemoveMember", "removeMember", detail.group.value.members[k].id)

handleCancelInvitation ==
  /\ isOwner /\ ~hasAssignments
  /\ \E k \in DOMAIN detail.group.value.pending_invitations :
       Press("handleCancelInvitation", "cancelInvitation",
             detail.group.value.pending_invitations[k].invitation_id)

\* const totalMembers = (group.members?.length || 0) + 1; // +1 for owner
totalMembers(group) == Len(group.members) + 1

\* The user presses Assign: with fewer than 2 members counted the alert is
\* shown and the handler returns; otherwise the user confirms and the
\* onPress runs up to its await.
handleAssignSecretSanta ==
  /\ isOwner /\ ~hasAssignments /\ ~detail.assigning
  /\ IF totalMembers(detail.group.value) < 2
       THEN /\ GroupRendered
            /\ CanPress
            /\ alert' = Some("Need at least 2 members to create Secret Santa assignments")
            /\ UNCHANGED <<sessionVars, server, screen, home, detail, procs>>
       ELSE Press("handleAssignSecretSanta", "assignSecretSanta", 0)

handleDeleteAssignments ==
  /\ isOwner /\ hasAssignments /\ ~detail.deletingAssignments
  /\ Press("handleDeleteAssignments", "deleteAssignments", 0)

handleSaveImage ==
  /\ isOwner /\ ~detail.updatingImage
  /\ Press("handleSaveImage", "updateGroup", 0)

handleDelete ==
  /\ isOwner /\ ~detail.deleting
  /\ Press("handleDelete", "deleteGroup", 0)

\* A new idea is created, an idea on display is updated.
handleSaveGiftIdea ==
  /\ ~detail.savingGiftIdea
  /\ procs["deferred"] = IdleProc
  /\ \/ Press("handleSaveGiftIdea", "createGiftIdea", 0)
     \/ \E k \in DOMAIN detail.giftIdeas :
          Press("handleSaveGiftIdea", "updateGiftIdea", detail.giftIdeas[k].id)

handleDeleteGiftIdea ==
  \E k \in DOMAIN detail.giftIdeas :
    Press("handleDeleteGiftIdea", "deleteGiftIdea", detail.giftIdeas[k].id)

\* A handler after its service operation: the catch block, or what the
\* handler does on success (it awaits loadGroup(), hands loadGroup() to
\* runAfterInteractions, shows the group of the response, or goes back);
\* finally the flag is reset unless the handler still awaits.
detailMutationAnswered(handler, call) ==
  IF call.state = "threw"
    THEN /\ alert' = Some(AlertMessage(The(call.thrown)))
         /\ detail' = ResetFlag(detail, handler)
         /\ procs' = [procs EXCEPT !["handler"] = IdleProc]
         /\ UNCHANGED <<screen, home>>
  ELSE IF handler \in ReloadingHandlers
    THEN /\ detail' = [detail EXCEPT !.loading = TRUE]
         /\ procs' = [procs EXCEPT !["handler"] = Awaiting(handler, "getGroupById", @.arg)]
         /\ UNCHANGED <<alert, screen, home>>
  ELSE IF handler \in DeferringHandlers
    THEN /\ detail' = ResetFlag(detail, handler)
         /\ procs' = [procs EXCEPT !["handler"] = IdleProc,
                                   !["deferred"] =
                                     [IdleProc EXCEPT !.pc = <<handler, "runAfterInteractions">>]]
         /\ UNCHANGED <<alert, screen, home>>
  ELSE IF handler = "handleSaveImage"
    THEN /\ detail' = [ResetFlag(detail, handler) EXCEPT !.group = The(call.ret)]
         /\ procs' = [procs EXCEPT !["handler"] = IdleProc]
         /\ UNCHANGED <<alert, screen, home>>
  ELSE /\ onBack
       /\ UNCHANGED alert

\* The service operation of a handler of GroupDetailScreen has resolved or
\* thrown.
mutationAnswered ==
  /\ screen = "detail"
  /\ procs["handler"].pc[2] \in WriteOps
  /\ procs["handler"].answer # Null
  /\ detailMutationAnswered(procs["handler"].pc[1], Settled(procs["handler"]))
  /\ UNCHANGED <<sessionVars, server>>

\* The callback handed to runAfterInteractions runs: loadGroup() up to its
\* first await.
detailAfterInteractions ==
  /\ screen = "detail"
  /\ procs["deferred"].pc[2] = "runAfterInteractions"
  /\ detail' = [detail EXCEPT !.loading = TRUE]
  /\ procs' = [procs EXCEPT !["deferred"] = Awaiting(@.pc[1], "getGroupById", 0)]
  /\ UNCHANGED <<sessionVars, server, screen, home, alert>>

\* loadGroup returns: its finally block, then the finally block of the
\* handler that awaited it.
\* onRefresh calls loadGroup(false), every other caller loadGroup().
showLoading(p) == procs[p].pc[1] # "onRefresh"

Finish(p, d) ==
  LET loaded == IF showLoading(p) THEN [d EXCEPT !.loading = FALSE]
                ELSE [d EXCEPT !.refreshing = FALSE]
  IN  IF p = "handler" THEN ResetFlag(loaded, procs[p].pc[1]) ELSE loaded

\* The catch block of loadGroup, and what follows it.
loadGroupCaught(p, call) ==
  IF showLoading(p)
    THEN /\ alert' = Some(AlertMessage(The(call.thrown)))
         /\ onBack
    ELSE /\ detail' = Finish(p, detail)
         /\ procs' = [procs EXCEPT ![p] = IdleProc]
         /\ UNCHANGED <<screen, home, alert>>

\* groupData && userId && (isOwner || groupData.members?.some(...))
isMember(groupData) ==
  /\ groupData # NullValue
  /\ userId # Null
  /\ \/ The(userId) = groupData.value.created_by
     \/ \E k \in DOMAIN groupData.value.members :
          groupData.value.members[k].id = The(userId)

\* loadGroup from getGroupById on: setGroup(groupData), then getAssignment
\* is called for a member.
groupLoaded ==
  /\ screen = "detail"
  /\ \E p \in ProcNames :
       /\ procs[p].pc[2] = "getGroupById"
       /\ procs[p].answer # Null
       /\ LET call == Settled(procs[p]) IN
          IF call.state = "threw" THEN loadGroupCaught(p, call)
          ELSE /\ IF isMember(The(call.ret))
                    THEN /\ detail' = [detail EXCEPT !.group = The(call.ret)]
                         /\ procs' = [procs EXCEPT ![p] =
                                        Awaiting(@.pc[1], "getAssignment", @.arg)]
                    ELSE /\ detail' = Finish(p, [detail EXCEPT !.group = The(call.ret)])
                         /\ procs' = [procs EXCEPT ![p] = IdleProc]
               /\ UNCHANGED <<screen, home, alert>>
  /\ UNCHANGED <<sessionVars, server>>

\* loadGroup from getAssignment on: setAssignment(assignmentData), then
\* getGiftIdeas is called.
assignmentLoaded ==
  /\ screen = "detail"
  /\ \E p \in ProcNames :
       /\ procs[p].pc[2] = "getAssignment"
       /\ procs[p].answer # Null
       /\ LET call == Settled(procs[p]) IN
          IF call.state = "threw" THEN loadGroupCaught(p, call)
          ELSE /\ detail' = [detail EXCEPT !.assignment = The(call.ret)]
               /\ procs' = [procs EXCEPT ![p] = Awaiting(@.pc[1], "getGiftIdeas", @.arg)]
               /\ UNCHANGED <<screen, home, alert>>
  /\ UNCHANGED <<sessionVars, server>>

\* loadGroup from getGiftIdeas on: the ideas of the user are kept.
giftIdeasLoaded ==
  /\ screen = "detail"
  /\ \E p \in ProcNames :
       /\ procs[p].pc[2] = "getGiftIdeas"
       /\ procs[p].answer # Null
       /\ LET call == Settled(procs[p]) IN
          IF call.state = "threw" THEN loadGroupCaught(p, call)
          ELSE /\ detail' =
                    Finish(p, [detail EXCEPT !.giftIdeas =
                                 SelectSeq(The(call.ret).items,
                                           LAMBDA idea : idea.created_by_id = The(userId))])
               /\ procs' = [procs EXCEPT ![p] = IdleProc]
               /\ UNCHANGED <<screen, home, alert>>
  /\ UNCHANGED <<sessionVars, server>>

\* The user pulls to refresh with nothing else in progress: onRefresh up to
\* the await in loadGroup(false).
detailOnRefresh ==
  /\ GroupRendered
  /\ alert = Null
  /\ ~detail.refreshing
  /\ procs = NoProcs
  /\ detail' = [detail EXCEPT !.refreshing = TRUE]
  /\ procs' = [procs EXCEPT !["mount"] = Awaiting("onRefresh", "getGroupById", 0)]
  /\ UNCHANGED <<sessionVars, server, screen, home, alert>>

(***************************************************************************)
(* App.tsx: the navigation between the two screens                         *)
(***************************************************************************)
\* onGroupPress: the user opens the group on display in the list;
\* HomeScreen is unmounted and GroupDetailScreen mounted.
onGroupPress ==
  /\ screen = "home"
  /\ HomeCanPress
  /\ \E k \in DOMAIN home.groups : home.groups[k].id = DetailGroup.id
  /\ screen' = "none"
  /\ home' = HomeInitial
  /\ detail' = DetailInitial
  /\ procs' = NoProcs
  /\ UNCHANGED <<sessionVars, server, alert>>

\* The user presses Back on GroupDetailScreen.
goBack ==
  /\ screen = "detail"
  /\ alert = Null
  /\ onBack
  /\ UNCHANGED <<sessionVars, server, alert>>

\* The invite tokens of the deep links, the platforms the application runs
\* on, and the most lookups by invite token in progress at once.
InviteTokens == {"abc123"}
Platforms == {"native", "web", "mobileWeb"}
MaxLookups == 2

\* AppContent as constructed on a platform, opened by the URL initialURL
\* (Null, or the invite token of a /join/ link): on the mobile web an invite
\* link starts on the landing screen. No effect has run yet.
AppInitial(platform, initialURL) ==
  LET getInitialInviteToken == IF platform = "mobileWeb" THEN initialURL ELSE Null IN
  [platform |-> platform, initialURL |-> initialURL,
   currentScreen |-> IF getInitialInviteToken # Null THEN "inviteLanding" ELSE "home",
   selectedGroupId |-> Null,
   inviteToken |-> getInitialInviteToken,
   pendingInviteToken |-> Null,
   urlEffect |-> Null, pendingEffect |-> Null,
   subscribed |-> FALSE, getInitialURL |-> Null,
   lookups |-> <<>>]

\* AppContent on the native platform, opened without a link, the session
\* signed in and both effects run.
AppAtRest ==
  [AppInitial("native", Null) EXCEPT !.urlEffect = Some(TRUE),
                                     !.pendingEffect = Some(<<TRUE, Null>>),
                                     !.subscribed = TRUE]

\* The state LoginScreen is constructed with.
LoginInitial == [loading |-> FALSE]

\* HomeScreen has just been mounted.
HomeMounted ==
  /\ app = AppAtRest
  /\ login = LoginInitial
  /\ screen = "home"
  /\ home = HomeInitial
  /\ detail = DetailInitial
  /\ procs = HomeProcs

\* GroupDetailScreen has just been mounted on the group.
DetailMounted ==
  /\ app = AppAtRest
  /\ login = LoginInitial
  /\ screen = "detail"
  /\ home = HomeInitial
  /\ detail = DetailInitial
  /\ procs = DetailProcs

\* Neither screen is mounted.
NoScreen ==
  /\ app = AppAtRest
  /\ login = LoginInitial
  /\ server = InitialServer
  /\ screen = "none"
  /\ home = HomeInitial
  /\ detail = DetailInitial
  /\ alert = Null
  /\ procs = NoProcs

\* AuthProvider as constructed, on whatever the device holds.
SessionInit ==
  /\ storage \in InitialStorage
  /\ token = Null
  /\ isAuthenticated = FALSE
  /\ userId = Null
  /\ username = Null
  /\ displayName = Null
  /\ imageUrl = Null
  /\ isLoading = TRUE
  /\ pcAuth = <<"checkAuth", "start">>
  /\ authReq = Null
  /\ authData = Null
  /\ authResponse = Null
  /\ authRet = Null
  /\ svc = IdleCall

Init == SessionInit /\ NoScreen

Next ==
  \/ checkAuth
  \/ checkAuthAnswered
  \/ checkAuthVerified
  \/ checkAuthRemove
  \/ checkAuthClear
  \/ signIn
  \/ signUp
  \/ authenticateAnswered
  \/ authenticateSetToken
  \/ authenticateSetUser
  \/ authenticateFinish
  \/ signOut
  \/ deleteAccount
  \/ deleteAccountAnswered
  \/ signOutRemove
  \/ signOutClear
  \/ ServiceCall(SampleIds)
  \/ ServiceSettle
  \/ ServiceDone

\* The whole client: the session holder and the screens' service calls.
Spec == Init /\ [][Next]_vars

\* A session that stays signed in, as signIn leaves it.
SignedIn(user) ==
  /\ storage = (TOKEN_KEY :> TokenOf(user)) @@ (USER_KEY :> stringify(user))
  /\ token = Some(TokenOf(user))
  /\ isAuthenticated = TRUE
  /\ userId = Some(user.id)
  /\ username = Some(user.username)
  /\ displayName = Some(user.display_name)
  /\ imageUrl = user.image_url
  /\ isLoading = FALSE
  /\ pcAuth = Idle
  /\ authReq = Null
  /\ authData = Null
  /\ authResponse = Null
  /\ authRet = Some(NoError)

ServiceInit ==
  /\ \E user \in Users : SignedIn(user)
  /\ svc = IdleCall
  /\ NoScreen

ServiceNext ==
  \/ ServiceCall(GroupIds)
  \/ ServiceSettle
  \/ ServiceDone

\* The domain service and the adapter under a signed-in session, on every
\* group ID string of up to MaxIdLen characters.
ServiceSpec == ServiceInit /\ [][ServiceNext]_vars

ScreenInit ==
  /\ \E user \in Users : SignedIn(user)
  /\ svc = IdleCall
  /\ \/ server = InitialServer /\ HomeMounted
     \/ \E listed \in BOOLEAN :
          /\ server = [InitialServer EXCEPT !.ownerListed = listed]
          /\ DetailMounted
  /\ alert = Null

ScreenNext ==
  \/ ServerAnswers
  \/ DismissAlert
  \/ loadGroups
  \/ loadInvitations
  \/ handleAcceptInvitation
  \/ handleRejectInvitation
  \/ invitationAnswered
  \/ openCreateModal
  \/ handleCreateGroup
  \/ createGroupAnswered
  \/ homeAfterInteractions
  \/ homeOnRefresh
  \/ onGroupPress
  \/ goBack
  \/ handleInvite
  \/ handleRemoveMember
  \/ handleCancelInvitation
  \/ handleAssignSecretSanta
  \/ handleDeleteAssignments
  \/ handleSaveImage
  \/ handleDelete
  \/ handleSaveGiftIdea
  \/ handleDeleteGiftIdea
  \/ mutationAnswered
  \/ detailAfterInteractions
  \/ groupLoaded
  \/ assignmentLoaded
  \/ giftIdeasLoaded
  \/ detailOnRefresh

\* The two screens of a signed-in user against the backend.
ScreenSpec == ScreenInit /\ [][ScreenNext]_vars

(***************************************************************************)
(* App.tsx: AppContent, its navigation state, its effects and deep links   *)
(***************************************************************************)
\* What AppContent renders.
Shown ==
  IF app.currentScreen = "inviteLanding" /\ app.inviteToken # Null THEN "inviteLanding"
  ELSE IF isLoading THEN "loading"
  ELSE IF ~isAuthenticated THEN "login"
  ELSE IF app.currentScreen = "groupDetail" /\ app.selectedGroupId # Null THEN "groupDetail"
  ELSE IF app.currentScreen = "profile" THEN "profile"
  ELSE "home"

\* Everything but the state of AppContent.
besidesApp ==
  <<storage, token, authVars, pcAuth, authReq, authData, authResponse, authRet, svc,
    server, screen, home, detail, alert, procs, login>>

\* handleDeepLink on a URL that carries an invite token, as created by a
\* render in which isAuthenticated had the value authenticated, up to its
\* return or to its await of getGroupByInviteToken; from names the caller.
handleDeepLink(a, inviteToken, authenticated, from) ==
  IF ~authenticated
    THEN [a EXCEPT !.pendingInviteToken = Some(inviteToken)]
    ELSE [a EXCEPT !.lookups = Append(@, [token |-> inviteToken, from |-> from,
                                          state |-> "getGroupByInviteToken"])]

\* The effect on [isAuthenticated] that handles the URL the application was
\* opened with and subscribes to the links that arrive later; its cleanup
\* has removed the subscription of the previous run.
deepLinkEffect ==
  /\ app.urlEffect # Some(isAuthenticated)
  /\ Len(app.lookups) < MaxLookups
  /\ LET ran == [app EXCEPT !.urlEffect = Some(isAuthenticated)] IN
     app' = IF app.currentScreen = "inviteLanding" /\ app.inviteToken # Null
              THEN [ran EXCEPT !.subscribed = FALSE]
            ELSE IF app.platform = "mobileWeb" /\ app.initialURL # Null
              THEN [ran EXCEPT !.inviteToken = app.initialURL,
                               !.currentScreen = "inviteLanding",
                               !.subscribed = FALSE]
            ELSE IF app.platform = "native"
              THEN [ran EXCEPT !.getInitialURL = Some(isAuthenticated),
                               !.subscribed = TRUE]
            ELSE IF app.initialURL # Null
              THEN [handleDeepLink(ran, The(app.initialURL), isAuthenticated, "initialURL")
                      EXCEPT !.subscribed = TRUE]
            ELSE [ran EXCEPT !.subscribed = TRUE]
  /\ UNCHANGED besidesApp

\* The effect on [isAuthenticated, pendingInviteToken]: the pending invite
\* token is handled once the session is authenticated, and cleared.
pendingInviteEffect ==
  /\ app.urlEffect = Some(isAuthenticated)
  /\ app.pendingEffect # Some(<<isAuthenticated, app.pendingInviteToken>>)
  /\ Len(app.lookups) < MaxLookups
  /\ LET ran == [app EXCEPT !.pendingEffect =
                               Some(<<isAuthenticated, app.pendingInviteToken>>)] IN
     app' = IF isAuthenticated /\ app.pendingInviteToken # Null
              THEN [handleDeepLink(ran, The(app.pendingInviteToken), isAuthenticated,
                                   "pendingInviteToken")
                      EXCEPT !.pendingInviteToken = Null]
              ELSE ran
  /\ UNCHANGED besidesApp

\* Linking.getInitialURL() of the native platform resolves: the callback
\* hands the URL, if there is one, to the handleDeepLink of the render the
\* effect ran in.
initialURLResolved ==
  /\ app.urlEffect = Some(isAuthenticated)
  /\ app.pendingEffect = Some(<<isAuthenticated, app.pendingInviteToken>>)
  /\ app.getInitialURL # Null
  /\ Len(app.lookups) < MaxLookups
  /\ app' = IF app.initialURL # Null
              THEN [handleDeepLink(app, The(app.initialURL), The(app.getInitialURL),
                                   "initialURL")
                      EXCEPT !.getInitialURL = Null]
              ELSE [app EXCEPT !.getInitialURL = Null]
  /\ UNCHANGED besidesApp

\* Both effects have run for the state on display and the initial URL has
\* been read.
EffectsSettled ==
  /\ app.urlEffect = Some(isAuthenticated)
  /\ app.pendingEffect = Some(<<isAuthenticated, app.pendingInviteToken>>)
  /\ app.getInitialURL = Null

\* An invite link arrives while the application is running and subscribed.
linkingUrl ==
  /\ app.subscribed
  /\ Len(app.lookups) < MaxLookups
  /\ \E inviteToken \in InviteTokens :
       app' = handleDeepLink(app, inviteToken, The(app.urlEffect), "url")
  /\ UNCHANGED besidesApp

\* A sequence without its k-th element.
DropAt(seq, k) == SubSeq(seq, 1, k - 1) \o SubSeq(seq, k + 1, Len(seq))

\* handleDeepLink from its await on: getGroupByInviteToken has answered
\* with the group, and the confirmation to join is shown, or with an error,
\* and the error is shown.
deepLinkAnswered ==
  /\ \E k \in DOMAIN app.lookups :
       /\ app.lookups[k].state = "getGroupByInviteToken"
       /\ \/ app' = [app EXCEPT !.lookups[k].state = "Join Group"]
          \/ app' = [app EXCEPT !.lookups = DropAt(@, k)]
  /\ UNCHANGED besidesApp

\* The user answers the confirmation: Cancel, or Join, whose onPress runs
\* up to its await of joinGroupByToken.
joinGroupPrompt ==
  /\ \E k \in DOMAIN app.lookups :
       /\ app.lookups[k].state = "Join Group"
       /\ \/ app' = [app EXCEPT !.lookups = DropAt(@, k)]
          \/ app' = [app EXCEPT !.lookups[k].state = "joinGroupByToken"]
  /\ UNCHANGED besidesApp

\* The onPress of Join from its await on: the error is shown, or the group
\* joined is selected and its screen made the current one.
joinGroupAnswered ==
  /\ \E k \in DOMAIN app.lookups :
       /\ app.lookups[k].state = "joinGroupByToken"
       /\ \/ app' = [app EXCEPT !.lookups = DropAt(@, k)]
          \/ app' = [app EXCEPT !.lookups = DropAt(@, k),
                                !.selectedGroupId = Some(DetailGroupId),
                                !.currentScreen = "groupDetail"]
  /\ UNCHANGED besidesApp

\* onGroupPress of HomeScreen: setSelectedGroupId(groupId);
\* setCurrentScreen('groupDetail')
navigateToGroup ==
  /\ Shown = "home"
  /\ app' = [app EXCEPT !.selectedGroupId = Some(DetailGroupId),
                        !.currentScreen = "groupDetail"]
  /\ UNCHANGED besidesApp

\* onNavigateToProfile of HomeScreen: setCurrentScreen('profile')
onNavigateToProfile ==
  /\ Shown = "home"
  /\ app' = [app EXCEPT !.currentScreen = "profile"]
  /\ UNCHANGED besidesApp

\* onBack of GroupDetailScreen and of ProfileScreen: setCurrentScreen('home')
navigateHome ==
  /\ Shown \in {"groupDetail", "profile"}
  /\ app' = [app EXCEPT !.currentScreen = "home"]
  /\ UNCHANGED besidesApp

\* onContinueWeb of InviteLandingScreen: the token is kept as pending and
\* the landing screen left.
onContinueWeb ==
  /\ Shown = "inviteLanding"
  /\ app' = [app EXCEPT !.pendingInviteToken = app.inviteToken,
                        !.currentScreen = "home",
                        !.inviteToken = Null]
  /\ UNCHANGED besidesApp

\* LoginScreen and SignupScreen call signIn and signUp, the menu of
\* HomeScreen calls signOut, ProfileScreen calls deleteAccount.
loginSignIn == Shown = "login" /\ signIn
signupSignUp == Shown = "login" /\ signUp
homeSignOut == Shown = "home" /\ signOut
profileDeleteAccount == Shown = "profile" /\ deleteAccount

\* The application starts on a platform, opened by an invite link or not,
\* with whatever the device holds.
AppInit ==
  /\ SessionInit
  /\ \E platform \in Platforms, initialURL \in {Null} \cup {Some(t) : t \in InviteTokens} :
       app = AppInitial(platform, initialURL)
  /\ login = LoginInitial
  /\ server = InitialServer
  /\ screen = "none"
  /\ home = HomeInitial
  /\ detail = DetailInitial
  /\ alert = Null
  /\ procs = NoProcs

\* The effects run after every render, before anything else happens.
AfterEffects(A) == EffectsSettled /\ A

AppNext ==
  \/ deepLinkEffect
  \/ pendingInviteEffect
  \/ initialURLResolved
  \/ AfterEffects(checkAuth)
  \/ AfterEffects(checkAuthAnswered)
  \/ AfterEffects(checkAuthVerified)
  \/ AfterEffects(checkAuthRemove)
  \/ AfterEffects(checkAuthClear)
  \/ AfterEffects(loginSignIn)
  \/ AfterEffects(signupSignUp)
  \/ AfterEffects(authenticateAnswered)
  \/ AfterEffects(authenticateSetToken)
  \/ AfterEffects(authenticateSetUser)
  \/ AfterEffects(authenticateFinish)
  \/ AfterEffects(homeSignOut)
  \/ AfterEffects(profileDeleteAccount)
  \/ AfterEffects(deleteAccountAnswered)
  \/ AfterEffects(signOutRemove)
  \/ AfterEffects(signOutClear)
  \/ AfterEffects(linkingUrl)
  \/ AfterEffects(deepLinkAnswered)
  \/ AfterEffects(joinGroupPrompt)
  \/ AfterEffects(joinGroupAnswered)
  \/ AfterEffects(navigateToGroup)
  \/ AfterEffects(onNavigateToProfile)
  \/ AfterEffects(navigateHome)
  \/ AfterEffects(onContinueWeb)

\* The session holder under AppContent: navigation and invite links.
AppSpec == AppInit /\ [][AppNext]_vars

(***************************************************************************)
(* LoginScreen, and the screens under calls that all resolve               *)
(***************************************************************************)
\* Everything but the state of LoginScreen, the Alert and what signIn
\* returned.
besidesLogin ==
  <<storage, token, authVars, pcAuth, authReq, authData, authResponse, svc,
    server, home, detail, procs, app>>

\* LoginScreen has just been mounted: the startup check has ended anonymous.
LoginMounted ==
  /\ storage = multiRemove(TOKEN_KEY :> "", {TOKEN_KEY})
  /\ token = Null
  /\ isAuthenticated = FALSE
  /\ userId = Null
  /\ username = Null
  /\ displayName = Null
  /\ imageUrl = Null
  /\ isLoading = FALSE
  /\ pcAuth = Idle
  /\ authReq = Null
  /\ authData = Null
  /\ authResponse = Null
  /\ authRet = Null
  /\ svc = IdleCall
  /\ app = [AppInitial("native", Null) EXCEPT !.urlEffect = Some(FALSE),
                                              !.pendingEffect = Some(<<FALSE, Null>>),
                                              !.subscribed = TRUE]
  /\ login = LoginInitial
  /\ server = InitialServer
  /\ screen = "login"
  /\ home = HomeInitial
  /\ detail = DetailInitial
  /\ alert = Null
  /\ procs = NoProcs

\* handleLogin up to its call of signIn: with a field left empty the alert,
\* otherwise setLoading(true).
handleLogin ==
  /\ screen = "login"
  /\ alert = Null
  /\ ~login.loading
  /\ \E filled \in BOOLEAN :
       IF filled
         THEN login' = [login EXCEPT !.loading = TRUE] /\ UNCHANGED alert
         ELSE alert' = Some("Please fill in all fields") /\ UNCHANGED login
  /\ UNCHANGED <<besidesLogin, authRet, screen>>

\* handleLogin: await signIn(username, password), up to signIn's own await.
handleLoginSignIn ==
  /\ screen = "login"
  /\ login.loading
  /\ authRet = Null
  /\ signIn

\* handleLogin after signIn has returned: setLoading(false) and, on an error,
\* the alert. A successful signIn has unmounted LoginScreen.
handleLoginReturned ==
  /\ screen = "login"
  /\ login.loading
  /\ pcAuth = Idle
  /\ authRet # Null
  /\ login' = [login EXCEPT !.loading = FALSE]
  /\ alert' = IF The(authRet).error # Null
                THEN Some(The(The(authRet).error).message) ELSE alert
  /\ screen' = IF isAuthenticated THEN "none" ELSE screen
  /\ authRet' = Null
  /\ UNCHANGED besidesLogin

LiveInit == ScreenInit \/ LoginMounted

LiveNext ==
  \/ ScreenNext
  \/ handleLogin
  \/ handleLoginSignIn
  \/ authenticateAnswered
  \/ authenticateSetToken
  \/ authenticateSetUser
  \/ authenticateFinish
  \/ handleLoginReturned

\* The request the function p awaits fails: one of the ways ServerAnswers
\* answers it. It is enabled as long as the request is unanswered.
CallFails(p) ==
  /\ procs[p].pc[2] \in ServiceOps
  /\ procs[p].answer = Null
  /\ \E failure \in ScreenFailures :
       procs' = [procs EXCEPT ![p].answer = Some(failure)]
  /\ UNCHANGED <<sessionVars, server, screen, home, detail, alert>>

\* The function p holds the answer to the call it awaits. Every step in
\* which p goes on from its await takes the answer, so that this is enabled
\* exactly as long as p is left suspended on a call that has resolved.
RunsOn(p) ==
  /\ procs[p].answer # Null
  /\ procs' = [procs EXCEPT ![p] = IdleProc]
  /\ UNCHANGED <<sessionVars, server, screen, home, detail, alert>>

\* The interaction manager runs what was handed to runAfterInteractions.
AfterInteractions == homeAfterInteractions \/ detailAfterInteractions

\* handleLogin and signIn go on without the user.
LoginContinues ==
  \/ handleLoginSignIn
  \/ authenticateAnswered
  \/ authenticateSetToken
  \/ authenticateSetUser
  \/ authenticateFinish
  \/ handleLoginReturned

\* Every call resolves and every function in progress is run on: no request
\* of a function stays unanswered, no function stays suspended on a call
\* that has resolved, deferred work is run, and handleLogin takes its next
\* step. What the user does is left open.
LiveSpec ==
  /\ LiveInit
  /\ [][LiveNext]_vars
  /\ \A p \in ProcNames : WF_vars(CallFails(p)) /\ WF_vars(RunsOn(p))
  /\ WF_vars(AfterInteractions)
  /\ WF_vars(LoginContinues)

(***************************************************************************)
(* Properties of the domain service and of the adapter                     *)
(***************************************************************************)
\* The call in progress or just finished was handed a group ID that
\* parseInt turns into NaN.
FailsParsing == svc.op \in GroupIdOps /\ isNaN(parseInt(The(svc.groupId)))

\* C1: for every group ID string that fails integer parsing, getGroupById
\* and getAssignment return null and getGiftIdeas returns the empty list;
\* none of them throws and none puts a request on the wire.
ReadsOfUnparsableIdReturnEmpty ==
  (svc.op \in {"getGroupById", "getAssignment", "getGiftIdeas"} /\ FailsParsing)
    => /\ svc.state = "returned"
       /\ svc.thrown = Null
       /\ svc.ret = Some(IF svc.op = "getGiftIdeas" THEN List(<<>>) ELSE NullValue)
       /\ svc.requests = <<>>
       /\ svc.fetched = Null

\* getGiftIdeas has returned for the group ID "-x7".
ReadOfUnparsableIdReturned ==
  /\ svc.op = "getGiftIdeas"
  /\ svc.groupId = Some(<<"-", "x", "7">>)
  /\ FailsParsing
  /\ svc.state = "returned"

\* C2: for every group ID string that fails integer parsing, each of the
\* eleven write operations that take a group ID throws a GroupServiceError
\* whose AppError is of type VALIDATION, and puts no request on the wire.
WritesOfUnparsableIdThrowValidation ==
  (svc.op \in {"updateGroup", "deleteGroup", "inviteUser", "cancelInvitation",
               "leaveGroup", "removeMember", "assignSecretSanta", "deleteAssignments",
               "createGiftIdea", "updateGiftIdea", "deleteGiftIdea"} /\ FailsParsing)
    => /\ svc.state = "threw"
       /\ svc.ret = Null
       /\ svc.thrown # Null
       /\ The(svc.thrown).name = "GroupServiceError"
       /\ The(svc.thrown).appError.type = "VALIDATION"
       /\ svc.requests = <<>>
       /\ svc.fetched = Null

\* leaveGroup has thrown for the group ID " x".
WriteOfUnparsableIdThrew ==
  /\ svc.op = "leaveGroup"
  /\ svc.groupId = Some(<<" ", "x">>)
  /\ FailsParsing
  /\ svc.state = "threw"

\* The string is the decimal numeral of a positive integer.
IsPositiveInteger(string) ==
  /\ string # <<>>
  /\ \A i \in 1..Len(string) : IsDigit(string[i], 10)
  /\ DigitsValue(string, 10, 0) > 0

\* C3: a group-scoped operation calls the adapter only when the group ID it
\* was handed is a positive integer; for "0", "-7" or "7x" no request is
\* made.
AdapterCalledOnlyForPositiveIds ==
  (svc.op \in GroupIdOps /\ svc.requests # <<>>) => IsPositiveInteger(The(svc.groupId))

\* The classification the status code of a response stands for.
ClassOfStatus(status) ==
  CASE status = 401 -> "AUTHENTICATION"
    [] status = 403 -> "AUTHORIZATION"
    [] status = 404 -> "NOT_FOUND"
    [] status = 400 -> "VALIDATION"
    [] status >= 500 /\ status <= 599 -> "SERVER"
    [] OTHER -> "API"

\* fetch of the service call's request ended with a response / by throwing.
Answered == svc.fetched # Null /\ The(svc.fetched).kind = "response"
FetchThrew == svc.fetched # Null /\ The(svc.fetched).kind = "threw"

\* C4: for every non-2xx response the adapter returns an error result whose
\* classification is the one its status code stands for, whatever the
\* content type and the body of the response are.
StatusAloneClassifies ==
  (Answered /\ ~ok(The(svc.fetched).response.status))
    => /\ "appError" \in DOMAIN The(svc.response)
       /\ The(svc.response).appError.type = ClassOfStatus(The(svc.fetched).response.status)

\* C5: whenever fetch throws before a response is reached, the adapter
\* returns an error result classified NETWORK, whatever was thrown.
ThrownFetchIsNetwork ==
  FetchThrew
    => /\ "appError" \in DOMAIN The(svc.response)
       /\ The(svc.response).appError.type = "NETWORK"

\* C7: every adapter operation resolves to a result that is either a data
\* result with no error, or an error result with a message and a classified
\* AppError; never both and never neither.
ResultIsDataOrError ==
  svc.fetched # Null
    => /\ svc.response # Null
       /\ LET r == The(svc.response) IN
            \/ DOMAIN r = {"data"}
            \/ /\ DOMAIN r = {"error", "appError"}
               /\ r.error # ""
               /\ r.appError.type \in ErrorType
               /\ r.appError.userMessage = r.error

\* A 204 answer without a content type has been turned into an error result
\* by the adapter, and a JSON 200 answer into a data result.
ErrorResultOfEmptyAnswer ==
  /\ Answered
  /\ The(svc.fetched).response.status = 204
  /\ The(svc.fetched).response.contentType = NoHeader
  /\ DOMAIN The(svc.response) = {"error", "appError"}

(***************************************************************************)
(* Properties of the session holder                                        *)
(***************************************************************************)
HasAuthorization(request) == "Authorization" \in DOMAIN request.headers

\* A service call's request, sent with the bearer token, was answered 401
\* with a JSON body, and the call has returned to the screen.
Answered401 ==
  /\ svc.state \in {"returned", "threw"}
  /\ Answered
  /\ HasAuthorization(svc.requests[1])
  /\ The(svc.fetched).response.status = 401
  /\ IsJsonContentType(The(svc.fetched).response.contentType)
  /\ The(svc.fetched).response.body.parses
  /\ The(svc.fetched).response.body.json # JsonNull

\* C6: when an authenticated endpoint answers 401 the error is classified
\* AUTHENTICATION and, unless a session operation is still running, the
\* session is anonymous, the persisted token and identity are removed and
\* the adapter token is cleared.
UnauthorizedEndsSession ==
  Answered401
    => /\ The(svc.response).appError.type = "AUTHENTICATION"
       /\ pcAuth = Idle
            => /\ ~isAuthenticated
               /\ DOMAIN storage \cap {TOKEN_KEY, USER_KEY} = {}
               /\ token = Null

\* The request a step puts on the wire, if it does.
Issued ==
  IF authReq = Null /\ authReq' # Null THEN authReq'
  ELSE IF svc.requests = <<>> /\ svc'.requests # <<>> THEN {svc'.requests[1]}
  ELSE {}

\* C8: a request carries the Authorization bearer header exactly when the
\* adapter token is set as the request is issued, and then it carries that
\* token; the token is set only by checkAuth restoring the persisted pair
\* and by a signIn or signUp that got a data result; when signOut completes
\* the token is cleared, and it is clear whenever the login screens are up.
BearerFollowsToken ==
  [][/\ \A request \in Issued :
          IF token' # Null
            THEN /\ HasAuthorization(request)
                 /\ request.headers["Authorization"] = Bearer(The(token'))
            ELSE ~HasAuthorization(request)
     /\ (token' # Null /\ token' # token)
          => \/ pcAuth = <<"checkAuth", "start">> /\ token' = Some(storage[TOKEN_KEY])
             \/ /\ pcAuth \in {<<"signIn", "finish">>, <<"signUp", "finish">>}
                /\ "data" \in DOMAIN The(authResponse)
                /\ token' = Some(The(authResponse).data.token)
     /\ (pcAuth[1] \in {"signOut", "deleteAccount"} /\ pcAuth[2] = "clear" /\ pcAuth' = Idle)
          => token' = Null
     /\ (pcAuth' = Idle /\ ~isAuthenticated' /\ ~isLoading') => token' = Null
    ]_vars

\* After a signOut, signIn has sent its request without the header while a
\* service call made before the signOut still waits with the header.
SignInRequestAfterSignOut ==
  /\ pcAuth = <<"signIn", "await">>
  /\ ~HasAuthorization(The(authReq))
  /\ token = Null
  /\ svc.state = "awaiting"
  /\ HasAuthorization(svc.requests[1])

\* checkAuth is waiting for the answer of getMe.
VerificationInFlight == pcAuth = <<"checkAuth", "getMe">>

\* C9, as stated: while the getMe verification is in flight the session is
\* already marked authenticated.
AuthenticatedBeforeVerified == VerificationInFlight => isAuthenticated

\* C9, amended: while the getMe verification is in flight the adapter token
\* is the persisted one, the session is still anonymous and loading;
\* isAuthenticated becomes true only once getMe has answered with data.
AnonymousUntilVerified ==
  VerificationInFlight
    => /\ ~isAuthenticated
       /\ isLoading
       /\ token = Some(storage[TOKEN_KEY])
       /\ HasAuthorization(The(authReq))

\* getMe is in flight for the persisted token and the session is anonymous.
VerificationPending ==
  /\ VerificationInFlight
  /\ {TOKEN_KEY, USER_KEY} \subseteq DOMAIN storage
  /\ authReq # Null
  /\ ~isAuthenticated

Authenticating == pcAuth[1] \in {"signIn", "signUp"}

\* C11: signIn and signUp make the session authenticated only after the
\* remote call has answered with data and the token and then the identity
\* of that answer have been written to storage, in that order; when the
\* remote call fails they return an error message, with the session still
\* anonymous, storage untouched and the adapter token unset.
AuthenticatedOnlyOncePersisted ==
  [][Authenticating =>
       /\ (pcAuth[2] = "await" /\ pcAuth' # pcAuth)
            => \/ /\ pcAuth' = Idle
                  /\ authRet' # Null
                  /\ The(authRet').error # Null
                  /\ The(The(authRet').error).message # ""
                  /\ ~isAuthenticated'
                  /\ token' = Null
                  /\ UNCHANGED <<storage, authVars>>
               \/ /\ pcAuth' = <<pcAuth[1], "setToken">>
                  /\ "data" \in DOMAIN The(authResponse')
                  /\ authData' = Some(The(authResponse').data)
                  /\ UNCHANGED <<storage, token, authVars>>
       /\ storage' # storage
            => \/ /\ pcAuth[2] = "setToken"
                  /\ storage' = setItem(storage, TOKEN_KEY, The(authData).token)
               \/ /\ pcAuth[2] = "setUser"
                  /\ TOKEN_KEY \in DOMAIN storage
                  /\ storage[TOKEN_KEY] = The(authData).token
                  /\ storage' = setItem(storage, USER_KEY, stringify(The(authData).user))
       /\ isAuthenticated' # isAuthenticated
            => /\ isAuthenticated'
               /\ {TOKEN_KEY, USER_KEY} \subseteq DOMAIN storage
               /\ storage[TOKEN_KEY] = The(authData).token
               /\ storage[USER_KEY] = stringify(The(authData).user)
               /\ token' = Some(The(authData).token)
               /\ userId' = Some(The(authData).user.id)
               /\ authRet' = Some(NoError)
    ]_vars

\* signIn or signUp has returned an error message: the login screens are
\* still up, nothing is persisted and the adapter token is unset.
SignInFailed ==
  /\ pcAuth = Idle
  /\ authRet # Null
  /\ The(authRet).error # Null
  /\ ~isAuthenticated
  /\ DOMAIN storage = {}
  /\ token = Null

\* signOut is running, by itself or at the end of deleteAccount.
SigningOut == pcAuth[1] \in {"signOut", "deleteAccount"} /\ pcAuth[2] \in {"remove", "clear"}

\* C12: signOut removes the persisted token and identity in one storage
\* operation while the adapter token and the in-memory identity are still
\* in place, and clears those next; when it has completed the session is
\* anonymous, both keys are absent, the adapter token is null and userId,
\* username, displayName and imageUrl are null.
SignOutPurgesThenClears ==
  [][(SigningOut /\ pcAuth' # pcAuth) =>
       /\ pcAuth[2] = "remove"
            => /\ storage' = multiRemove(storage, {TOKEN_KEY, USER_KEY})
               /\ pcAuth' = <<pcAuth[1], "clear">>
               /\ isAuthenticated' /\ token' = token /\ token' # Null
               /\ UNCHANGED authVars
       /\ pcAuth[2] = "clear"
            => /\ pcAuth' = Idle
               /\ ~isAuthenticated'
               /\ DOMAIN storage' \cap {TOKEN_KEY, USER_KEY} = {}
               /\ token' = Null
               /\ userId' = Null /\ username' = Null
               /\ displayName' = Null /\ imageUrl' = Null
    ]_vars

\* signOut has removed both keys and has not yet cleared the adapter token
\* and the identity.
SignOutPurged ==
  /\ pcAuth = <<"signOut", "clear">>
  /\ DOMAIN storage = {}
  /\ token # Null
  /\ isAuthenticated
  /\ userId # Null

\* The adapter has answered the service call with an error result.
AdapterFailed == svc.response # Null /\ "error" \in DOMAIN The(svc.response)

\* C13: when the adapter returns an error result to a write operation, the
\* operation throws a GroupServiceError whose message is the adapter's
\* message and whose AppError is the adapter's, classification included.
WritesThrowAdapterError ==
  (svc.op \in WriteOps /\ AdapterFailed)
    => /\ svc.state = "threw"
       /\ svc.ret = Null
       /\ The(svc.thrown).name = "GroupServiceError"
       /\ The(svc.thrown).message = The(svc.response).error
       /\ The(svc.thrown).appError = The(svc.response).appError
       /\ The(svc.thrown).appError.type = The(svc.response).appError.type

\* inviteUser has thrown what the adapter made of a 403 answer.
InviteUserThrewForbidden ==
  /\ svc.op = "inviteUser"
  /\ svc.state = "threw"
  /\ AdapterFailed
  /\ The(svc.fetched).kind = "response"
  /\ The(svc.fetched).response.status = 403
  /\ The(svc.thrown).appError.type = "AUTHORIZATION"

\* C14: the five read operations never throw; on every error result of
\* the adapter, whatever its classification, getGroups, getPendingInvitations
\* and getGiftIdeas return the empty list and getGroupById and getAssignment
\* return null.
ReadsNeverThrow ==
  svc.op \in {"getGroups", "getPendingInvitations", "getGroupById", "getAssignment",
              "getGiftIdeas"}
    => /\ svc.state # "threw"
       /\ svc.thrown = Null
       /\ AdapterFailed
            => /\ svc.state = "returned"
               /\ svc.ret = Some(IF svc.op \in {"getGroupById", "getAssignment"}
                                   THEN NullValue ELSE List(<<>>))

\* getGroups has returned the empty list after fetch threw.
GetGroupsSwallowedNetworkError ==
  /\ svc.op = "getGroups"
  /\ svc.state = "returned"
  /\ FetchThrew
  /\ The(svc.response).appError.type = "NETWORK"
  /\ svc.ret = Some(List(<<>>))

\* C15: a service operation puts at most one request on the wire and is
\* over once that request has failed; assignSecretSanta with a group ID that
\* parses issues exactly one request, a POST to the assign endpoint of the
\* parsed ID.
AtMostOneRequest ==
  /\ Len(svc.requests) <= 1
  /\ AdapterFailed => svc.state \in {"returned", "threw"}
  /\ (svc.op = "assignSecretSanta" /\ ~FailsParsing)
       => /\ Len(svc.requests) = 1
          /\ svc.requests[1].method = "POST"
          /\ svc.requests[1].api = "assignSecretSanta"
          /\ svc.requests[1].endpoint =
               <<"/api/groups/", ToString(parseInt(The(svc.groupId)).n), "/assign">>

\* assignSecretSanta("7") has thrown after its one POST was answered 500.
AssignFailedOnce ==
  /\ svc.op = "assignSecretSanta"
  /\ svc.groupId = Some(<<"7">>)
  /\ svc.state = "threw"
  /\ Len(svc.requests) = 1
  /\ Answered
  /\ The(svc.fetched).response.status = 500

(***************************************************************************)
(* Properties of the screens                                               *)
(***************************************************************************)
\* The backend has answered the request a function awaits with a 2xx.
AnsweredOk(proc) ==
  /\ proc.answer # Null
  /\ The(proc.answer).kind = "response"
  /\ ok(The(proc.answer).response.status)

\* The body of that answer.
BodyOf(proc) == The(proc.answer).response.body.json

\* The function p takes the step that ends its await, on the screen that
\* stays mounted.
Resumes(p) == procs[p].answer # Null /\ procs'[p] # procs[p] /\ screen' = screen

\* C16: when assignSecretSanta has succeeded and the backend answers the
\* getAssignment that handleAssignSecretSanta's reload makes next, the
\* operation returns the receiver of that answer as it is and the screen
\* shows it: it is not null, it is the receiver the backend paired with
\* the user, and it is not the user itself unless the backend paired the
\* user with itself.
AssignmentSurfacedUnmodified ==
  [][(/\ procs["handler"].pc = <<"handleAssignSecretSanta", "getAssignment">>
      /\ AnsweredOk(procs["handler"])
      /\ Resumes("handler"))
     => LET reported == BodyOf(procs["handler"]).assignment
            returned == The(Settled(procs["handler"]).ret)
        IN  /\ reported = Some([receiver_id |-> The(server.assignment)])
            /\ returned = Object(The(reported))
            /\ detail'.assignment = returned
            /\ returned # NullValue
            /\ (server.assignment # userId => returned.value.receiver_id # The(userId))]_vars

\* The owner has assigned, and the reload shows bob as the receiver.
AssignedReceiverShown ==
  /\ procs["handler"].pc = <<"handleAssignSecretSanta", "getGiftIdeas">>
  /\ userId = Some(alice.id)
  /\ server.assignment = Some(bob.id)
  /\ detail.assignment = Object([receiver_id |-> bob.id])

MutationHandlers ==
  {"handleCreateGroup", "handleAcceptInvitation", "handleRejectInvitation",
   "handleInvite", "handleRemoveMember", "handleCancelInvitation",
   "handleAssignSecretSanta", "handleDeleteAssignments", "handleSaveGiftIdea",
   "handleDeleteGiftIdea"}

\* The handler resumes from a mutation that failed.
MutationFails ==
  /\ Resumes("handler")
  /\ procs["handler"].pc[1] \in MutationHandlers
  /\ procs["handler"].pc[2] \in WriteOps
  /\ ~AnsweredOk(procs["handler"])

\* C18: when the mutation of a handler fails, the handler shows the alert
\* with the message of the error and ends; no function of the screen starts
\* or changes (no re-fetch), the displayed groups, invitations, group,
\* assignment and gift ideas and the loading flags stay as they are, and
\* GroupDetailScreen goes on rendering the group.
FailedMutationOnlyAlerts ==
  [][MutationFails =>
       /\ alert' = Some(The(Settled(procs["handler"]).thrown).appError.userMessage)
       /\ procs' = [procs EXCEPT !["handler"] = IdleProc]
       /\ home'.groups = home.groups
       /\ home'.invitations = home.invitations
       /\ home'.loading = home.loading
       /\ home'.loadingInvitations = home.loadingInvitations
       /\ detail'.group = detail.group
       /\ detail'.assignment = detail.assignment
       /\ detail'.giftIdeas = detail.giftIdeas
       /\ detail'.loading = detail.loading
       /\ (screen = "detail" => GroupRendered')]_vars

\* The backend has refused to accept or reject an invitation on HomeScreen
\* (the modal of a new group was never opened): the alert is up, both
\* invitations are still displayed, and nothing is in progress.
FailedInvitationAnswerAlert ==
  /\ screen = "home"
  /\ alert = Some("You do not have permission to perform this action.")
  /\ ~home.modalVisible
  /\ server.groups = {7}
  /\ home.invitations = <<InvitationOf(5), InvitationOf(6)>>
  /\ home.groups = <<GroupSummary(7)>>
  /\ procs = NoProcs

\* C19: on a screen that stays mounted, the displayed groups, invitations
\* and group change only on a step where a function resumes from the read
\* operation that fetches them anew: never on the step that takes the
\* answer to a mutation.
DisplayReplacedOnlyByRefetch ==
  [][screen' = screen =>
       /\ home'.groups # home.groups
            => \E p \in ProcNames : Resumes(p) /\ procs[p].pc[2] = "getGroups"
       /\ home'.invitations # home.invitations
            => \E p \in ProcNames : Resumes(p) /\ procs[p].pc[2] = "getPendingInvitations"
       /\ detail'.group # detail.group
            => \E p \in ProcNames : Resumes(p) /\ procs[p].pc[2] = "getGroupById"]_vars

\* One of the in-flight flags of GroupDetailScreen is set.
MutationInFlight ==
  \/ detail.assigning \/ detail.deletingAssignments \/ detail.inviting
  \/ detail.savingGiftIdea \/ detail.deletingGiftIdea # Null
  \/ detail.updatingImage \/ detail.deleting

\* C20: on GroupDetailScreen, while an in-flight flag of a mutation is set,
\* the loading flag is false and the loaded group is rendered.
InFlightFlagKeepsGroupRendered ==
  (screen = "detail" /\ MutationInFlight) => GroupRendered

\* What a load displays for the answer it got: the list of the body, or the
\* empty list when the request failed.
ListAnswered(proc, key) == IF AnsweredOk(proc) THEN BodyOf(proc)[key] ELSE <<>>

\* C21: HomeScreen starts mounted with getGroups and getPendingInvitations
\* both in flight, and a pull to refresh puts both in flight in one step;
\* the load of the groups writes groups and loading only, the load of the
\* invitations writes invitations and loadingInvitations only, and each
\* writes what its own answer determines, so the state after both is the
\* same whichever resumes first.
MountLoadsAreIndependent ==
  /\ screen = "home" =>
       /\ procs["mount"] = Awaiting("useEffect", "getGroups", 0)
       /\ procs["mountInvitations"] = Awaiting("useEffect", "getPendingInvitations", 0)
  /\ [][/\ (procs["mount"] = IdleProc /\ procs'["mount"] # IdleProc /\ screen = "home")
             => /\ procs'["mount"] = Awaiting("onRefresh", "getGroups", 0)
                /\ procs'["mountInvitations"] =
                     Awaiting("onRefresh", "getPendingInvitations", 0)
        /\ (screen = "home" /\ Resumes("mount"))
             => /\ home' = [home EXCEPT
                              !.groups = ListAnswered(procs["mount"], "groups"),
                              !.loading = FALSE]
                /\ procs' = [procs EXCEPT !["mount"] = IdleProc]
                /\ alert' = alert
        /\ (screen = "home" /\ Resumes("mountInvitations"))
             => /\ home' = [home EXCEPT
                              !.invitations =
                                ListAnswered(procs["mountInvitations"], "invitations"),
                              !.loadingInvitations = FALSE]
                /\ procs' = [procs EXCEPT !["mountInvitations"] = IdleProc]
                /\ alert' = alert]_vars

\* The invitations, requested second, have arrived first: they are on
\* display while the groups are still loading.
InvitationsArrivedFirst ==
  /\ screen = "home"
  /\ procs["mount"].pc = <<"useEffect", "getGroups">>
  /\ procs["mountInvitations"] = IdleProc
  /\ home.loading /\ ~home.loadingInvitations
  /\ home.invitations = <<InvitationOf(5), InvitationOf(6)>>
  /\ home.groups = <<>>

\* The people of a group, each counted once: the owner and the members.
PeopleOf(group) ==
  {group.created_by} \cup {group.members[k].id : k \in DOMAIN group.members}

\* C22: while the group on display has fewer than 2 people, no step starts
\* the Assign onPress (no assignSecretSanta is issued); a press of Assign
\* only shows the alert.
AssignBlockedBelowTwoPeople ==
  [][(GroupRendered /\ Cardinality(PeopleOf(detail.group.value)) < 2)
     => /\ procs'["handler"].pc # <<"handleAssignSecretSanta", "assignSecretSanta">>
        /\ (alert' # alert /\ alert' # Null /\ procs' = procs)
             => alert' = Some("Need at least 2 members to create Secret Santa assignments")]_vars

AnonymousAfterStartupHasNothingPersisted ==
  (pcAuth = Idle /\ ~isLoading /\ ~isAuthenticated)
    => DOMAIN storage \cap {TOKEN_KEY, USER_KEY} = {}

\* C26: whenever the server answers a request with a 2xx status, the adapter
\* returns a data result and not an error result, whatever the content type
\* and the body of the response are.
SuccessStatusGivesData ==
  (Answered /\ ok(The(svc.fetched).response.status))
    => /\ "data" \in DOMAIN The(svc.response)
       /\ "error" \notin DOMAIN The(svc.response)

\* The requests the owner's screen must not issue once assignments exist.
GuardedByAssignments ==
  {<<"handleAssignSecretSanta", "assignSecretSanta">>, <<"handleInvite", "inviteUser">>,
   <<"handleRemoveMember", "removeMember">>,
   <<"handleCancelInvitation", "cancelInvitation">>}

\* C27: while the server holds assignments for the group, no step of the
\* group detail screen starts assignSecretSanta, inviteUser, removeMember or
\* cancelInvitation.
NoGuardedActionWhileAssigned ==
  [][(screen = "detail" /\ server.assignment # Null /\ procs["handler"] = IdleProc)
       => procs'["handler"].pc \notin GuardedByAssignments]_vars

\* A function of HomeScreen awaits getGroups.
GroupsLoadInFlight == \E p \in ProcNames : procs[p].pc[2] = "getGroups"

\* The load of the groups started at mount or by a pull to refresh, with
\* nothing else in progress, completes after a load started later has
\* already completed: loading was set when the first load began, and only a
\* completed load resets it.
FirstLoadCompletesLast ==
  /\ screen = "home"
  /\ procs["mount"].pc[2] = "getGroups"
  /\ procs'["mount"] = IdleProc
  /\ screen' = screen
  /\ ~home.loading
  /\ \A p \in ProcNames \ {"mount"} : procs[p].pc[2] # "getGroups"

\* C28: when loads of the groups overlap on HomeScreen, loading is true for
\* as long as one of them is in flight, and the load issued first, completing
\* after the one issued later, leaves the later one's groups on display.
OverlappingLoadsShowTheLatest ==
  /\ []((screen = "home" /\ GroupsLoadInFlight) => home.loading)
  /\ [][FirstLoadCompletesLast => home'.groups = home.groups]_vars

(***************************************************************************)
(* Properties of AppContent                                                *)
(***************************************************************************)
\* C25: the step by which signIn or signUp makes the session authenticated
\* leaves the home screen on display, whatever navigation state the session
\* before it has left.
SignInShowsHome ==
  [][(~isAuthenticated /\ isAuthenticated' /\ pcAuth[1] \in {"signIn", "signUp"})
       => Shown' = "home"]_vars

\* A step adds a lookup by invite token to those in progress.
IssuesLookup == Len(app'.lookups) > Len(app.lookups)

\* C29: no lookup by invite token is issued while the session is anonymous;
\* the step that clears the pending token is taken in an authenticated
\* session and issues exactly the lookup by that token; and the link the
\* application was opened with, received before any session is
\* authenticated and so kept as pending, is looked up in no other way.
PendingTokenProcessedOnce ==
  [][/\ IssuesLookup => isAuthenticated
     /\ (app.pendingInviteToken # Null /\ app'.pendingInviteToken = Null)
          => /\ isAuthenticated
             /\ app'.lookups = Append(app.lookups,
                                      [token |-> The(app.pendingInviteToken),
                                       from |-> "pendingInviteToken",
                                       state |-> "getGroupByInviteToken"])
     /\ IssuesLookup => app'.lookups[Len(app'.lookups)].from # "initialURL"]_vars

\* C30: under calls that all resolve, whenever an in-flight flag is set on the
\* mounted screen (loading, loadingInvitations, creating; loading, refreshing,
\* inviting, assigning, deletingAssignments, savingGiftIdea, deletingGiftIdea,
\* updatingImage, deleting; the login screen's loading), a state follows in
\* which every flag of that screen has its idle value, so that each flag
\* that was set has been reset, after a success as after a failure.
InFlight ==
  \/ /\ screen = "home"
     /\ home.loading \/ home.loadingInvitations \/ home.creating
  \/ /\ screen = "detail"
     /\ \/ detail.loading
        \/ detail.refreshing
        \/ detail.inviting
        \/ detail.assigning
        \/ detail.deletingAssignments
        \/ detail.savingGiftIdea
        \/ detail.deletingGiftIdea # Null
        \/ detail.updatingImage
        \/ detail.deleting
  \/ screen = "login" /\ login.loading

InFlightFlagsAreReset == InFlight ~> ~InFlight

\* handleAssignSecretSanta holds the failed answer to its
\* assignSecretSanta while assigning is set.
AssigningWhileCallFailed ==
  /\ screen = "detail"
  /\ detail.assigning
  /\ procs["handler"].pc = <<"handleAssignSecretSanta", "assignSecretSanta">>
  /\ procs["handler"].answer # Null
  /\ ~AnsweredOk(procs["handler"])

====
